---- MODULE Spec2Model ----
(***************************************************************************)
(* A model of xmlcustomformatter: the XMLCustomFormatter class             *)
(* (src/src/xmlcustomformatter/formatter.py), the StringManipulation       *)
(* helpers (src/src/xmlcustomformatter/stringmanipulation.py) and the      *)
(* Options value.  Strings are TLA+ strings; Python's 0-based indices are  *)
(* kept in every operator that models a Python string method.              *)
(***************************************************************************)
EXTENDS Integers, Sequences, FiniteSets, TLC

(***************************************************************************)
(* Python string primitives                                                *)
(***************************************************************************)

\* The characters of the model that Python's str.strip(), the regex class \s
\* and endswith(("\n", " ", "\t", "\r")) treat as whitespace.
Whitespace == {" ", "\t", "\n"}

\* s[i:i+1] for a 0-based index i: "" past the end of s.
CharAt(s, i) == IF i < 0 \/ i >= Len(s) THEN "" ELSE SubSeq(s, i + 1, i + 1)

\* s[a:b] for 0 <= a, b (Python clamps b to len(s); a > b gives "").
Slice(s, a, b) ==
    LET hi == IF b > Len(s) THEN Len(s) ELSE b
    IN  IF a >= hi THEN "" ELSE SubSeq(s, a + 1, hi)

\* s.startswith(p, i)
StartsWithAt(s, i, p) == Slice(s, i, i + Len(p)) = p

\* s.endswith(p)
EndsWith(s, p) == Len(p) <= Len(s) /\ Slice(s, Len(s) - Len(p), Len(s)) = p

\* Python's normalisation of a slice bound: a negative bound counts from the
\* end, and the result is clamped to 0 .. len(s).
ClampIndex(s, i) ==
    LET j == IF i < 0 THEN i + Len(s) ELSE i
    IN  IF j < 0 THEN 0 ELSE IF j > Len(s) THEN Len(s) ELSE j

RECURSIVE FindIn(_, _, _, _)
\* The lowest index k in lo .. hi - 1 with s[k:k+len(p)] = p, or -1.  The
\* range is halved, so that the evaluation stays shallow on a long string.
FindIn(s, p, lo, hi) ==
    IF lo >= hi THEN -1
    ELSE IF hi - lo = 1 THEN (IF StartsWithAt(s, lo, p) THEN lo ELSE -1)
    ELSE LET mid == (lo + hi) \div 2
             left == FindIn(s, p, lo, mid)
         IN  IF left # -1 THEN left ELSE FindIn(s, p, mid, hi)

RECURSIVE RFindIn(_, _, _, _)
\* The highest index k in lo .. hi - 1 with s[k:k+len(p)] = p, or -1.
RFindIn(s, p, lo, hi) ==
    IF lo >= hi THEN -1
    ELSE IF hi - lo = 1 THEN (IF StartsWithAt(s, lo, p) THEN lo ELSE -1)
    ELSE LET mid == (lo + hi) \div 2
             right == RFindIn(s, p, mid, hi)
         IN  IF right # -1 THEN right ELSE RFindIn(s, p, lo, mid)

\* s.find(p, start)
find(s, p, start) == FindIn(s, p, ClampIndex(s, start), Len(s) - Len(p) + 1)

\* s.rfind(p, start, end)
rfind(s, p, start, end) ==
    RFindIn(s, p, ClampIndex(s, start), ClampIndex(s, end) - Len(p) + 1)

RECURSIVE LeadingCount(_, _, _)
\* The number of leading characters of s, from index i on, that are in chars.
LeadingCount(s, chars, i) ==
    IF i < Len(s) /\ CharAt(s, i) \in chars
    THEN 1 + LeadingCount(s, chars, i + 1)
    ELSE 0

RECURSIVE TrailingCount(_, _, _)
\* The number of trailing characters of s[0:n] that are in chars.
TrailingCount(s, chars, n) ==
    IF n > 0 /\ CharAt(s, n - 1) \in chars
    THEN 1 + TrailingCount(s, chars, n - 1)
    ELSE 0

\* s.lstrip(chars)
lstripChars(s, chars) == Slice(s, LeadingCount(s, chars, 0), Len(s))

\* s.lstrip(), s.rstrip(), s.strip()
lstrip(s) == lstripChars(s, Whitespace)
rstrip(s) == Slice(s, 0, Len(s) - TrailingCount(s, Whitespace, Len(s)))
strip(s) == lstrip(rstrip(s))

RECURSIVE ReplaceIn(_, _, _, _, _)
ReplaceIn(s, old, new, lo, hi) ==
    IF lo >= hi THEN ""
    ELSE IF hi - lo = 1 THEN (IF CharAt(s, lo) = old THEN new ELSE CharAt(s, lo))
    ELSE LET mid == (lo + hi) \div 2
         IN  ReplaceIn(s, old, new, lo, mid) \o ReplaceIn(s, old, new, mid, hi)

\* s.replace(old, new) for a one-character old.
ReplaceAll(s, old, new) == ReplaceIn(s, old, new, 0, Len(s))

\* c in s, for a one-character c.
Contains(s, c) == find(s, c, 0) # -1

RECURSIVE splitlines(_)
\* s.splitlines(keepends=True)
splitlines(s) ==
    IF s = "" THEN << >>
    ELSE LET k == find(s, "\n", 0)
         IN  IF k = -1 THEN << s >>
             ELSE << Slice(s, 0, k + 1) >> \o splitlines(Slice(s, k + 1, Len(s)))

RECURSIVE JoinIn(_, _, _)
JoinIn(fragments, lo, hi) ==
    IF lo > hi THEN ""
    ELSE IF lo = hi THEN fragments[lo]
    ELSE LET mid == (lo + hi) \div 2
         IN  JoinIn(fragments, lo, mid) \o JoinIn(fragments, mid + 1, hi)

\* "".join(fragments)
join(fragments) == JoinIn(fragments, 1, Len(fragments))

RECURSIVE Spaces(_)
\* count * " "
Spaces(count) == IF count <= 0 THEN "" ELSE " " \o Spaces(count - 1)

(***************************************************************************)
(* StringManipulation                                                      *)
(***************************************************************************)

\* What is left of the character at index i when every match of \s+ is
\* replaced by one space: the first character of a match becomes the space.
ReducedAt(s, i) ==
    IF CharAt(s, i) \notin Whitespace THEN CharAt(s, i)
    ELSE IF i > 0 /\ CharAt(s, i - 1) \in Whitespace THEN ""
    ELSE " "

\* What is left of the character at index i when every match of \n+ is
\* replaced by one line break.
EmptyLinesAt(s, i) ==
    IF CharAt(s, i) = "\n" /\ i > 0 /\ CharAt(s, i - 1) = "\n" THEN ""
    ELSE CharAt(s, i)

\* What is left of the character at index i when every match of \s+\n is
\* replaced by a line break: a match is greedy, so it takes every white
\* space character that only white space separates from a later line break,
\* and that line break stays.
WhitespaceEolAt(s, i) ==
    IF /\ CharAt(s, i) \in Whitespace
       /\ CharAt(s, i + 1 + LeadingCount(s, Whitespace \ {"\n"}, i + 1)) = "\n"
    THEN ""
    ELSE CharAt(s, i)

RECURSIVE SubIn(_, _, _, _)
\* The substitution by the named pattern in s[lo:hi]; the range is halved,
\* so that the evaluation stays shallow on a long string.
SubIn(pattern, s, lo, hi) ==
    IF lo >= hi THEN ""
    ELSE IF hi - lo = 1
    THEN CASE pattern = "WHITESPACES" -> ReducedAt(s, lo)
           [] pattern = "EMPTY_LINES" -> EmptyLinesAt(s, lo)
           [] pattern = "WHITESPACE_EOL" -> WhitespaceEolAt(s, lo)
    ELSE LET mid == (lo + hi) \div 2
         IN  SubIn(pattern, s, lo, mid) \o SubIn(pattern, s, mid, hi)

\* WHITESPACES.sub(" ", string), WHITESPACES = \s+
reduce_redundant_whitespace(string) == SubIn("WHITESPACES", string, 0, Len(string))

\* EMPTY_LINES.sub("\n", string), EMPTY_LINES = \n+
remove_empty_lines(string) == SubIn("EMPTY_LINES", string, 0, Len(string))

\* WHITESPACE_EOL.sub("\n", string), WHITESPACE_EOL = \s+\n
remove_whitespace_before_eol(string) == SubIn("WHITESPACE_EOL", string, 0, Len(string))

escape_xml_entities(string) ==
    LET r1 == IF Contains(string, "&") THEN ReplaceAll(string, "&", "&amp;") ELSE string
        r2 == IF Contains(r1, "<") THEN ReplaceAll(r1, "<", "&lt;") ELSE r1
        r3 == IF Contains(r2, ">") THEN ReplaceAll(r2, ">", "&gt;") ELSE r2
        r4 == IF Contains(r3, "\"") THEN ReplaceAll(r3, "\"", "&quot;") ELSE r3
    IN  IF Contains(r4, "'") THEN ReplaceAll(r4, "'", "&apos;") ELSE r4

(***************************************************************************)
(* The parsed document.  The parser is xml.dom.minidom over expat; the     *)
(* formatter reaches it through _parse_from_string.  Nodes are records of  *)
(* one shape; a node is addressed by its path of child indices from the    *)
(* Document node, which has the empty path.                                *)
(***************************************************************************)

\* Python's None for an optional string.
None == "None"

ElementNode(tagName, attributes, childNodes) ==
    [nodeType |-> "Element", nodeName |-> tagName, data |-> "",
     attributes |-> attributes, childNodes |-> childNodes]

LeafNode(nodeType, nodeName, data) ==
    [nodeType |-> nodeType, nodeName |-> nodeName, data |-> data,
     attributes |-> << >>, childNodes |-> << >>]

NameEnd == Whitespace \cup {"=", ">", "/", "?", "<", ""}

RECURSIVE NameEndFrom(_, _)
\* The index after the name that starts at index i.
NameEndFrom(s, i) ==
    IF CharAt(s, i) \in NameEnd THEN i ELSE NameEndFrom(s, i + 1)

SkipWhitespace(s, i) == i + LeadingCount(s, Whitespace, i)

RECURSIVE DecodeFrom(_, _)
\* The replacement of the five predefined entity references and of the
\* character references to the tab and the line feed.
DecodeFrom(s, i) ==
    IF i >= Len(s) THEN ""
    ELSE IF StartsWithAt(s, i, "&#9;") THEN "\t" \o DecodeFrom(s, i + 4)
    ELSE IF StartsWithAt(s, i, "&#10;") THEN "\n" \o DecodeFrom(s, i + 5)
    ELSE IF StartsWithAt(s, i, "&amp;") THEN "&" \o DecodeFrom(s, i + 5)
    ELSE IF StartsWithAt(s, i, "&lt;") THEN "<" \o DecodeFrom(s, i + 4)
    ELSE IF StartsWithAt(s, i, "&gt;") THEN ">" \o DecodeFrom(s, i + 4)
    ELSE IF StartsWithAt(s, i, "&quot;") THEN "\"" \o DecodeFrom(s, i + 6)
    ELSE IF StartsWithAt(s, i, "&apos;") THEN "'" \o DecodeFrom(s, i + 6)
    ELSE CharAt(s, i) \o DecodeFrom(s, i + 1)

\* Attribute-value normalisation: a literal tab or line break becomes a space.
NormalizeAttribute(raw) == ReplaceAll(ReplaceAll(raw, "\n", " "), "\t", " ")

\* The value of an attribute whose literal, between its quotes, is raw.
AttributeValue(raw) == DecodeFrom(NormalizeAttribute(raw), 0)

RECURSIVE ParseAttributes(_, _, _)
\* The name="value" pairs from index i on, in source order.
ParseAttributes(s, i, acc) ==
    LET j == SkipWhitespace(s, i)
        e == NameEndFrom(s, j)
        q == SkipWhitespace(s, e + 1)
        close == find(s, "\"", q + 1)
    IN  IF e = j \/ CharAt(s, e) # "=" \/ CharAt(s, q) # "\"" \/ close = -1
        THEN [attributes |-> acc, pos |-> j]
        ELSE ParseAttributes(s, close + 1,
                 Append(acc, [name |-> Slice(s, j, e),
                              value |-> AttributeValue(Slice(s, q + 1, close))]))

\* Character data is appended to a preceding Text node, as minidom does.
AppendText(acc, data) ==
    IF acc # << >> /\ acc[Len(acc)].nodeType = "Text"
    THEN [acc EXCEPT ![Len(acc)].data = @ \o data]
    ELSE Append(acc, LeafNode("Text", "#text", data))

Failed(i) == [nodes |-> << >>, pos |-> i, ok |-> FALSE]

\* The literal in double quotes that starts at or after index i: the text
\* between the quotes and the index after the closing quote.
QuotedFrom(s, i) ==
    LET open == find(s, "\"", i)
        close == find(s, "\"", open + 1)
    IN  [value |-> Slice(s, open + 1, close), pos |-> close + 1]

\* The document type declaration that starts at index i: the DocumentType
\* node and the index after the declaration.  internalSubset is the text
\* between the brackets, None without brackets.
ParseDoctype(s, i) ==
    LET n == SkipWhitespace(s, i + 9)
        e == NameEndFrom(s, n)
        k == SkipWhitespace(s, e)
        public == IF StartsWithAt(s, k, "PUBLIC") THEN QuotedFrom(s, k)
                  ELSE [value |-> None, pos |-> k]
        system == IF StartsWithAt(s, k, "PUBLIC") \/ StartsWithAt(s, k, "SYSTEM")
                  THEN QuotedFrom(s, public.pos)
                  ELSE [value |-> None, pos |-> k]
        b == SkipWhitespace(s, system.pos)
        close == IF CharAt(s, b) = "[" THEN find(s, "]>", b) ELSE b
    IN  [node |-> [nodeType |-> "DocumentType", nodeName |-> Slice(s, n, e), data |-> "",
                   attributes |-> << >>, childNodes |-> << >>,
                   name |-> Slice(s, n, e), publicId |-> public.value,
                   systemId |-> system.value,
                   internalSubset |-> IF CharAt(s, b) = "[" THEN Slice(s, b + 1, close)
                                      ELSE None],
         pos |-> IF CharAt(s, b) = "[" THEN close + 2 ELSE close + 1,
         \* a literal that is opened in the subset is closed in it
         ok |-> /\ close # -1
                /\ CharAt(s, b) = "[" \/ CharAt(s, b) = ">"
                /\ CharAt(s, b) = "[" =>
                       (Len(Slice(s, b + 1, close))
                            - Len(ReplaceAll(Slice(s, b + 1, close), "\"", ""))) % 2 = 0]

RECURSIVE ParseContent(_, _, _)

\* The nodes after a document type declaration, which is one of them.
AfterDoctype(s, i, acc, doctype) ==
    IF ~doctype.ok THEN Failed(i)
    ELSE ParseContent(s, doctype.pos, Append(acc, doctype.node))

\* The nodes from index i up to an end tag or the end of s.
ParseContent(s, i, acc) ==
    IF i >= Len(s) \/ StartsWithAt(s, i, "</")
    THEN [nodes |-> acc, pos |-> i, ok |-> TRUE]
    ELSE IF StartsWithAt(s, i, "<!--")
    THEN LET e == find(s, "-->", i + 4)
         IN  IF e = -1 THEN Failed(i)
             ELSE ParseContent(s, e + 3,
                      Append(acc, LeafNode("Comment", "#comment", Slice(s, i + 4, e))))
    ELSE IF StartsWithAt(s, i, "<!DOCTYPE")
    THEN AfterDoctype(s, i, acc, ParseDoctype(s, i))
    ELSE IF StartsWithAt(s, i, "<![CDATA[")
    THEN LET e == find(s, "]]>", i + 9)
             data == Slice(s, i + 9, e)
         IN  IF e = -1 THEN Failed(i)
             \* expat reports no character data for an empty section
             ELSE ParseContent(s, e + 3,
                      IF data = "" THEN acc
                      ELSE Append(acc, LeafNode("CDATASection", "#cdata-section", data)))
    ELSE IF StartsWithAt(s, i, "<?")
    THEN LET e == find(s, "?>", i + 2)
             n == NameEndFrom(s, i + 2)
         IN  IF e = -1 THEN Failed(i)
             ELSE ParseContent(s, e + 2,
                      Append(acc, LeafNode("ProcessingInstruction", Slice(s, i + 2, n),
                                           Slice(s, SkipWhitespace(s, n), e))))
    ELSE IF CharAt(s, i) = "<"
    THEN LET n == NameEndFrom(s, i + 1)
             tagName == Slice(s, i + 1, n)
             a == ParseAttributes(s, n, << >>)
         IN  IF tagName = "" THEN Failed(i)
             ELSE IF StartsWithAt(s, a.pos, "/>")
             THEN ParseContent(s, a.pos + 2,
                      Append(acc, ElementNode(tagName, a.attributes, << >>)))
             ELSE IF CharAt(s, a.pos) # ">" THEN Failed(i)
             ELSE LET c == ParseContent(s, a.pos + 1, << >>)
                      endName == NameEndFrom(s, c.pos + 2)
                      endClose == SkipWhitespace(s, endName)
                  IN  IF ~c.ok \/ ~StartsWithAt(s, c.pos, "</")
                         \/ Slice(s, c.pos + 2, endName) # tagName
                         \/ CharAt(s, endClose) # ">"
                      THEN Failed(i)
                      ELSE ParseContent(s, endClose + 1,
                               Append(acc, ElementNode(tagName, a.attributes, c.nodes)))
    ELSE LET lt == find(s, "<", i)
             e == IF lt = -1 THEN Len(s) ELSE lt
         IN  ParseContent(s, e, AppendText(acc, DecodeFrom(Slice(s, i, e), 0)))

AttributeNamed(attributes, name) ==
    IF \E k \in DOMAIN attributes : attributes[k].name = name
    THEN attributes[CHOOSE k \in DOMAIN attributes : attributes[k].name = name].value
    ELSE None

\* minidom.parseString(string): the Document node, or no document when the
\* string is not well-formed.  White space between the top-level nodes is
\* not reported by the parser.
parseString(string) ==
    LET start == SkipWhitespace(string, 0)
        hasDecl == StartsWithAt(string, start, "<?xml") /\ CharAt(string, start + 5) \in Whitespace
        decl == IF hasDecl THEN ParseAttributes(string, start + 5, << >>)
                ELSE [attributes |-> << >>, pos |-> start]
        body == IF hasDecl THEN decl.pos + 2 ELSE start
        c == ParseContent(string, body, << >>)
        top == SelectSeq(c.nodes, LAMBDA n : n.nodeType # "Text")
        standalone == AttributeNamed(decl.attributes, "standalone")
    IN  [ok |-> /\ c.ok
                /\ c.pos >= Len(string)
                /\ hasDecl => StartsWithAt(string, decl.pos, "?>")
                /\ \A k \in DOMAIN c.nodes :
                       c.nodes[k].nodeType \in {"Text", "CDATASection"} =>
                           (c.nodes[k].nodeType = "Text" /\ strip(c.nodes[k].data) = "")
                /\ Len(SelectSeq(top, LAMBDA n : n.nodeType = "Element")) = 1
                \* the document type declaration precedes the document element
                /\ \A k \in DOMAIN top :
                       top[k].nodeType = "DocumentType" =>
                           \A j \in 1 .. (k - 1) :
                               top[j].nodeType \notin {"Element", "DocumentType"},
         nodeType |-> "Document",
         version |-> AttributeNamed(decl.attributes, "version"),
         encoding |-> AttributeNamed(decl.attributes, "encoding"),
         standalone |-> IF standalone = None THEN None ELSE IF standalone = "yes" THEN "True" ELSE "False",
         childNodes |-> top]

RECURSIVE NodeAt(_, _)
\* The node of the tree under node at the given path.
NodeAt(node, path) ==
    IF path = << >> THEN node
    ELSE NodeAt(node.childNodes[Head(path)], Tail(path))

(***************************************************************************)
(* State                                                                   *)
(***************************************************************************)

VARIABLES
    input,               \* self.input: the input_xml argument
    options,             \* self.options
    _dom,                \* self._dom
    _indentation_level,  \* self._indentation_level
    _result,             \* self._result: fragments, then lines
    agenda,              \* the pending calls of the traversal, innermost first
    pc,                  \* the position of the run
    raised,              \* the exception the last call raised, or None
    lines,               \* _split_too_long_lines: the lines not yet visited
    line,                \* _split_too_long_lines: line
    indent,              \* _split_too_long_lines: indent
    result,              \* _split_too_long_lines: result
    runs,                \* the completed runs on this document: input and output
    calls,               \* the calls made on the constructed formatter
    output,              \* self.output: the output_xml argument, or None
    files,               \* the file system: the content of every existing file
    parses,              \* the parsers _parse_input has called in this run
    kwargs               \* the keyword arguments of the call of Options

vars == << input, options, _dom, _indentation_level, _result, agenda, pc,
           raised, lines, line, indent, result, runs, calls, output, files,
           parses, kwargs >>

emitter == << _indentation_level, _result, agenda >>
splitter == << lines, line, indent, result >>
environment == << output, files, parses, kwargs >>

(***************************************************************************)
(* Options                                                                 *)
(***************************************************************************)

\* The names in a tuple of element names: name in tuple.
Names(tuple) == { tuple[k] : k \in DOMAIN tuple }

\* The fields the formatter reads that the Options class of options.py does
\* not declare, with the defaults the specification gives them.
OptionsFromSpec ==
    [semicontainer_elements |-> << >>,
     sorted_attributes |-> TRUE,
     doctype_declaration_starts_new_line |-> TRUE,
     doctype_subset_parts_start_new_lines |-> TRUE,
     processing_instructions_start_new_lines |-> TRUE]

\* Options(): the default of every field.
Options ==
    [indentation |-> 4,
     max_line_length |-> 80,
     inline_elements |-> << >>,
     comments_have_trailing_spaces |-> TRUE,
     comments_start_new_lines |-> TRUE] @@ OptionsFromSpec

\* A Python value in a tuple handed to Options: its type and, for a str, the
\* string.
Str(value) == [type |-> "str", value |-> value]
NonStr(type) == [type |-> type, value |-> ""]

\* The strings of a tuple of str values
Values(tuple) == [k \in DOMAIN tuple |-> tuple[k].value]

\* The tuple of str values of a tuple of strings
Strs(names) == [k \in DOMAIN names |-> Str(names[k])]

\* [el for el in elements if not isinstance(el, str)]
invalid(elements) == SelectSeq(elements, LAMBDA el : el.type # "str")

\* A mutant of __post_init__: only the first entry is looked at.
__post_init___first_entry(arguments) ==
    IF arguments.inline_elements # << >> /\ arguments.inline_elements[1].type # "str"
    THEN "TypeError" ELSE None

\* Options.__post_init__: the exception it raises, or None
__post_init__(arguments) ==
    IF invalid(arguments.inline_elements) # << >> THEN "TypeError" ELSE None

\* The validation of semicontainer_elements, which the Options class of
\* options.py does not declare: as the specification gives it.
PostInitFromSpec(arguments) ==
    IF invalid(arguments.semicontainer_elements) # << >> THEN "TypeError" ELSE None

\* A mutant of __setattr__: the dataclass is not frozen.
__setattr___unfrozen(value, name, new) ==
    [value |-> [value EXCEPT ![name] = new], raised |-> None]

\* The __setattr__ of the frozen dataclass: the value after the assignment
\* value.name = new and the exception raised.
__setattr__(value, name, new) ==
    [value |-> value, raised |-> "FrozenInstanceError"]

(***************************************************************************)
(* Node classification                                                     *)
(***************************************************************************)

\* isinstance(node, Element); isinstance(node, Text) holds of a CDATASection
\* too, which is a subclass of Text.
IsElement(node) == node.nodeType = "Element"
IsText(node) == node.nodeType \in {"Text", "CDATASection"}

Child(path) == NodeAt(_dom, path)
ParentPath(path) == SubSeq(path, 1, Len(path) - 1)
parentNode(path) == NodeAt(_dom, ParentPath(path))
HasPreviousSibling(path) == path[Len(path)] > 1
previousSibling(path) == NodeAt(_dom, [path EXCEPT ![Len(path)] = @ - 1])

_is_inline_element(element) == element.nodeName \in Names(options.inline_elements)

_is_semicontainer_element(element) ==
    element.nodeName \in Names(options.semicontainer_elements)

\* A mutant of _is_empty_element: an element whose only child is a Text or
\* CDATA node of white space counts as empty too.
_is_empty_element_blank(element) ==
    \/ element.childNodes = << >>
    \/ /\ Len(element.childNodes) = 1
       /\ IsText(element.childNodes[1])
       /\ strip(element.childNodes[1].data) = ""

\* A mutant of _is_empty_element: only child elements are looked for.
_is_empty_element_no_elements(element) ==
    ~\E k \in DOMAIN element.childNodes : IsElement(element.childNodes[k])

_is_empty_element(element) == ~(element.childNodes # << >>)

needs_indent_for_first_child(path) ==
    ~ /\ ~HasPreviousSibling(path)
      /\ IsElement(parentNode(path))
      /\ \/ _is_semicontainer_element(parentNode(path))
         \/ _is_inline_element(parentNode(path))

needs_indent_after_special_sibling(path) ==
    ~ /\ HasPreviousSibling(path)
      /\ IsElement(previousSibling(path))
      /\ \/ _is_semicontainer_element(previousSibling(path))
         \/ _is_inline_element(previousSibling(path))

\* A mutant of needs_indent_for_text: only an inline element is kept on the
\* line of a preceding Text node, a following Text or CDATA node is not.
needs_indent_for_text_inline_only(path) ==
    ~ /\ HasPreviousSibling(path)
      /\ IsElement(Child(path)) /\ _is_inline_element(Child(path))
      /\ IsText(previousSibling(path))

needs_indent_for_text(path) ==
    ~ /\ HasPreviousSibling(path)
      /\ \/ IsElement(Child(path)) /\ _is_inline_element(Child(path))
         \/ IsText(Child(path))
      /\ IsText(previousSibling(path))

_needs_indentation(path) ==
    /\ needs_indent_for_first_child(path)
    /\ needs_indent_after_special_sibling(path)
    /\ needs_indent_for_text(path)

\* A mutant of the classification in _process_element_node: the
\* semicontainer names are looked up before the inline names.
ElementGroupSemicontainerFirst(element) ==
    IF _is_semicontainer_element(element) THEN "semicontainer"
    ELSE IF _is_inline_element(element) THEN "inline"
    ELSE "container"

\* group, in _process_element_node
ElementGroup(element) ==
    IF _is_inline_element(element) THEN "inline"
    ELSE IF _is_semicontainer_element(element) THEN "semicontainer"
    ELSE "container"

(***************************************************************************)
(* Indentation                                                             *)
(***************************************************************************)

\* _indentation(count); count is never negative, because the level and
\* options.indentation are not.
_indentation(count) == Spaces(count)

_calculate_indentation(level) == level * options.indentation

\* The fragment _add_indentation appends at the given level.
Indentation(level) == _indentation(_calculate_indentation(level))

\* A mutant of _decrease_indentation_level: the level is clamped at zero
\* without an error.
_decrease_indentation_level_clamped(level) ==
    [level |-> IF level = 0 THEN 0 ELSE level - 1, raised |-> None]

\* _decrease_indentation_level: the new level and the exception raised.
_decrease_indentation_level(level) ==
    IF level = 0
    THEN [level |-> level, raised |-> "ValueError"]
    ELSE [level |-> level - 1, raised |-> None]

\* _increase_indentation_level raising the level by two
_increase_indentation_level_twice(level) == level + 2

_increase_indentation_level(level) == level + 1

\* _result_endswith_linebreak answering for any white space
_result_endswith_linebreak_or_space(fragments) ==
    \E c \in {"\n", " ", "\t"} : EndsWith(fragments[Len(fragments)], c)

_result_endswith_linebreak(fragments) == EndsWith(fragments[Len(fragments)], "\n")

_result_endswith_whitespace(fragments) ==
    \E c \in {"\n", " ", "\t"} : EndsWith(fragments[Len(fragments)], c)

(***************************************************************************)
(* Fragments                                                               *)
(***************************************************************************)

\* The characters of names, in code point order.
NameAlphabet == "-.0123456789:ABCDEFGHIJKLMNOPQRSTUVWXYZ_abcdefghijklmnopqrstuvwxyz"

RECURSIVE StringLess(_, _)
\* a < b for two Python strings
StringLess(a, b) ==
    IF b = "" THEN FALSE
    ELSE IF a = "" THEN TRUE
    ELSE IF Head(a) = Head(b) THEN StringLess(Tail(a), Tail(b))
    ELSE find(NameAlphabet, Head(a), 0) < find(NameAlphabet, Head(b), 0)

RECURSIVE InsertByName(_, _)
InsertByName(attribute, sorted) ==
    IF sorted = << >> \/ StringLess(attribute.name, Head(sorted).name)
    THEN << attribute >> \o sorted
    ELSE << Head(sorted) >> \o InsertByName(attribute, Tail(sorted))

RECURSIVE SortByName(_)
\* attributes.sort(key=lambda attr: attr.name), a stable sort
SortByName(attributes) ==
    IF attributes = << >> THEN << >>
    ELSE InsertByName(attributes[Len(attributes)],
                      SortByName(SubSeq(attributes, 1, Len(attributes) - 1)))

\* The fragment _process_attribute_node appends.
_process_attribute_node(attribute) ==
    " " \o attribute.name \o "=\"" \o escape_xml_entities(attribute.value) \o "\""

\* A mutant of _process_attributes: the attributes are never sorted.
_process_attributes_unsorted(element) ==
    [k \in DOMAIN element.attributes |-> _process_attribute_node(element.attributes[k])]

\* The fragments _process_attributes appends.
_process_attributes(element) ==
    LET attributes == IF options.sorted_attributes
                      THEN SortByName(element.attributes)
                      ELSE element.attributes
    IN  [k \in DOMAIN attributes |-> _process_attribute_node(attributes[k])]

_open_start_tag(element) == "<" \o element.nodeName
_close_start_tag == ">"
_close_empty_tag == "/>"
\* _process_element_end_tag writing a start tag
_process_element_end_tag_open(element) == "<" \o element.nodeName \o ">"

_process_element_end_tag(element) == "</" \o element.nodeName \o ">"

\* The fragments the six element methods append before the child nodes are
\* processed, at the indentation level the method is entered with.
ElementStartFragments(element, level) ==
    LET tag == << _open_start_tag(element) >> \o _process_attributes(element)
        group == ElementGroup(element)
        empty == _is_empty_element(element)
    IN  IF group = "inline" /\ empty THEN tag \o << _close_empty_tag >>
        ELSE IF group = "inline" THEN tag \o << _close_start_tag >>
        ELSE IF group = "container" /\ empty
        THEN << "\n", Indentation(level) >> \o tag \o << _close_empty_tag, "\n" >>
        ELSE IF group = "container"
        THEN << "\n", Indentation(level) >> \o tag \o << _close_start_tag, "\n" >>
        ELSE IF empty
        THEN << "\n", Indentation(level) >> \o tag \o << _close_empty_tag >>
        ELSE << "\n", Indentation(level) >> \o tag \o << _close_start_tag >>

\* The fragment _process_text appends to the given fragments.
_process_text(text, fragments) ==
    LET data == reduce_redundant_whitespace(text.data)
    IN  escape_xml_entities(IF _result_endswith_whitespace(fragments)
                            THEN lstrip(data) ELSE data)

\* The fragment _process_cdata_section appends.
_process_cdata_section(cdata) ==
    "<![CDATA[" \o strip(reduce_redundant_whitespace(cdata.data)) \o "]]>"

_normalize_comment_data(comment) == strip(reduce_redundant_whitespace(comment.data))
_set_comment_newline == IF options.comments_start_new_lines THEN "\n" ELSE ""
_set_comment_start == IF options.comments_have_trailing_spaces THEN "<!-- " ELSE "<!--"
_set_comment_end == IF options.comments_have_trailing_spaces THEN " -->" ELSE "-->"

\* The fragment _process_comment_node appends at the given level.
_process_comment_node(comment, level) ==
    _set_comment_newline \o Indentation(level) \o _set_comment_start
        \o _normalize_comment_data(comment) \o _set_comment_end \o _set_comment_newline

_normalize_processing_instruction_data(pi) ==
    " " \o strip(reduce_redundant_whitespace(pi.data))

_set_processing_instruction_newline ==
    IF options.processing_instructions_start_new_lines THEN "\n" ELSE ""

\* The fragment _process_processing_instruction_node appends at the given level.
_process_processing_instruction_node(pi, level) ==
    _set_processing_instruction_newline \o Indentation(level) \o "<?" \o pi.nodeName
        \o _normalize_processing_instruction_data(pi) \o "?>"
        \o _set_processing_instruction_newline

_set_doctype_newline ==
    IF options.doctype_declaration_starts_new_line THEN "\n" ELSE ""

_construct_external_id(public_id, system_id) ==
    IF public_id # None THEN " PUBLIC \"" \o public_id \o "\" \"" \o system_id \o "\""
    ELSE IF system_id # None THEN " SYSTEM \"" \o system_id \o "\""
    ELSE ""

\* The characters of the regex class \w
WordCharacters ==
    LET w == "0123456789ABCDEFGHIJKLMNOPQRSTUVWXYZ_abcdefghijklmnopqrstuvwxyz"
    IN  { SubSeq(w, k, k) : k \in 1 .. Len(w) }

\* The index after the first occurrence of closing from index i on, or -1.
EndAfter(subset, closing, i) ==
    IF find(subset, closing, i) = -1 THEN -1
    ELSE find(subset, closing, i) + Len(closing)

\* The index after the match of the combined pattern at index i, or -1: a
\* declaration up to its first ">", a comment, a processing instruction or a
\* parameter-entity reference.
PartEnd(subset, i) ==
    IF \E keyword \in {"<!ELEMENT", "<!ENTITY", "<!ATTLIST", "<!NOTATION"} :
           StartsWithAt(subset, i, keyword) /\ find(subset, ">", i) # -1
    THEN EndAfter(subset, ">", i)
    ELSE IF StartsWithAt(subset, i, "<!--") /\ find(subset, "-->", i + 4) # -1
    THEN EndAfter(subset, "-->", i + 4)
    ELSE IF StartsWithAt(subset, i, "<?") /\ find(subset, "?>", i + 2) # -1
    THEN EndAfter(subset, "?>", i + 2)
    ELSE IF /\ CharAt(subset, i) = "%"
            /\ LeadingCount(subset, WordCharacters, i + 1) > 0
            /\ CharAt(subset, i + 1 + LeadingCount(subset, WordCharacters, i + 1)) = ";"
    THEN i + 2 + LeadingCount(subset, WordCharacters, i + 1)
    ELSE -1

RECURSIVE SubsetParts(_, _, _)
\* re.findall(combined_pattern, subset, re.DOTALL) from index i on, each part
\* stripped and indented.
SubsetParts(subset, i, indentation) ==
    IF i >= Len(subset) THEN << >>
    ELSE IF PartEnd(subset, i) = -1 THEN SubsetParts(subset, i + 1, indentation)
    ELSE << indentation \o strip(Slice(subset, i, PartEnd(subset, i))) >>
             \o SubsetParts(subset, PartEnd(subset, i), indentation)

RECURSIVE JoinLines(_)
\* "\n".join(formatted_lines)
JoinLines(formatted_lines) ==
    IF formatted_lines = << >> THEN ""
    ELSE IF Len(formatted_lines) = 1 THEN formatted_lines[1]
    ELSE formatted_lines[1] \o "\n" \o JoinLines(Tail(formatted_lines))

\* _construct_internal_subset at the given level; the level is raised for
\* the indentation of the parts and lowered again.
_construct_internal_subset(subset, level) ==
    IF subset = None \/ subset = "" THEN ""
    ELSE IF ~options.doctype_subset_parts_start_new_lines
    THEN " [" \o subset \o "]"
    ELSE " [\n"
             \o JoinLines(SubsetParts(subset, 0,
                                      Indentation(_increase_indentation_level(level))))
             \o "\n]"

\* The level _construct_internal_subset leaves: where the parts start new
\* lines it calls _increase_indentation_level and, with the indentation
\* computed, _decrease_indentation_level, which cannot raise at a level
\* above 0.
_construct_internal_subset_level(subset, level) ==
    IF subset = None \/ subset = "" \/ ~options.doctype_subset_parts_start_new_lines
    THEN level
    ELSE _decrease_indentation_level(_increase_indentation_level(level)).level

\* The fragment _process_document_type_node appends at the given level.
_process_document_type_node(doc_type, level) ==
    _set_doctype_newline \o "<!DOCTYPE " \o doc_type.name
        \o _construct_external_id(doc_type.publicId, doc_type.systemId)
        \o _construct_internal_subset(doc_type.internalSubset, level)
        \o ">" \o _set_doctype_newline

default_version == "1.0"
default_encoding == "UTF-8"
default_standalone == ""

_set_version ==
    IF _dom.version = None THEN " version=\"" \o default_version \o "\""
    ELSE " version=\"" \o _dom.version \o "\""

_set_encoding ==
    IF _dom.encoding = None THEN " encoding=\"" \o default_encoding \o "\""
    ELSE " encoding=\"" \o _dom.encoding \o "\""

\* A mutant of _set_standalone: the declaration never says standalone.
_set_standalone_omitted == default_standalone

_set_standalone ==
    IF _dom.standalone = None THEN default_standalone
    ELSE IF _dom.standalone = "True" THEN " standalone=\"yes\""
    ELSE " standalone=\"no\""

\* The fragment _process_xml_declaration appends.
_process_xml_declaration ==
    "<?xml" \o _set_version \o _set_encoding \o _set_standalone \o "?>\n"

(***************************************************************************)
(* Reflow                                                                  *)
(***************************************************************************)

\* _find_split_position's None
NoSplit == -1

\* A mutant of _find_split_position: the first space of the line is used,
\* whether or not it lies before the limit.
_find_split_position_first_space(l) ==
    LET r == find(l, " ", 0)
    IN  IF r # -1 THEN r ELSE NoSplit

_find_split_position(l) ==
    LET r1 == rfind(l, " ", 0, options.max_line_length)
        r2 == find(l, " ", options.max_line_length)
    IN  IF r1 # -1 THEN r1
        ELSE IF r2 # -1 THEN r2
        ELSE NoSplit

\* The lines _postprocess hands to _split_too_long_lines.
_postprocess(fragments) ==
    splitlines(strip(remove_whitespace_before_eol(remove_empty_lines(join(fragments)))))

\* get_result_as_string
get_result_as_string == join(_result)

(***************************************************************************)
(* Inputs                                                                  *)
(***************************************************************************)

\* The greatest number of pieces in the content of the document element.
MaxChildren == 2

\* The greatest number of calls made on a constructed formatter.
MaxCalls == 3

\* The greatest number of runs made on a document and its results.
MaxRuns == 2

\* The source text of the pieces of content.
Pieces ==
    { "foo", " ", " x \t y", "<b>y</b>", "<!-- c  d-->", "<![CDATA[d]]>",
      "<a k=\"a  b\" m=\"&lt;&amp;&quot;&apos;&gt;\"/>" }

RECURSIVE Contents(_)
\* The concatenations of at most n pieces.
Contents(n) ==
    IF n = 0 THEN { "" }
    ELSE Contents(n - 1) \cup { c \o p : c \in Contents(n - 1), p \in Pieces }

\* The files that exist before a run: a well-formed document and one that
\* is not well-formed.
FileSystem == ("input.xml" :> "<root>foo</root>") @@ ("bad.xml" :> "<r>")

\* The input_xml arguments that are paths; the last names no file.
InputPaths == { "input.xml", "bad.xml", "does_not_exist.xml" }

\* The output_xml argument that is a path.
OutputPath == "output.xml"

\* The input_xml arguments that are XML text.  The last one is not
\* well-formed.
Inputs ==
    { "<r>" \o c \o "</r>" : c \in Contents(MaxChildren) }
        \cup { "<r/>", "<r foo=\"bar\"/>", "<r foo=\"bar\"> </r>",
               "<r><![CDATA[]]></r>", "<r><?t  d ?></r>", "<r>foo<?t d?> </r>",
               "<r a=\"&#10; &#9;y\"/>",
               "<?xml version=\"1.1\"?><r/>",
               "<!DOCTYPE r []><r/>",
               "<!DOCTYPE r PUBLIC \"p\" \"s\"><r>foo</r>",
               "<!DOCTYPE r SYSTEM \"s\" [\n<!ELEMENT r  ANY> %p;<!--c > d--> <?p  q?>\n]><r/>",
               "<!DOCTYPE r [<!ENTITY e \"a>b\">]><r/>",
               "<?xml version=\"1.0\" encoding=\"ISO-8859-1\" standalone=\"no\"?><r>foo</r>",
               "<?xml version=\"1.0\" standalone=\"yes\"?><!--c--><r/><?p d?>",
               "<r>" }

\* The element names given as inline and as semicontainer elements.
ElementOptions ==
    { << << >>, << >> >>, << << >>, << "a" >> >>, << << "a", "b" >>, << "b" >> >>,
      << << "r" >>, << >> >>, << << >>, << "r", "b" >> >> }

\* The values of indentation and max_line_length.
LayoutOptions == { << 2, 80 >>, << 0, 80 >>, << 2, 8 >>, << 1, 0 >> }

\* The tuples handed to Options as inline_elements or semicontainer_elements:
\* of strings, and with an entry that is a tuple, an int, None, an object,
\* bytes or a bool.
ElementTuples ==
    { << >>, << Str("a") >>, << Str("div"), Str("span") >>,
      << NonStr("tuple") >>, << Str("div"), NonStr("int") >>, << NonStr("NoneType") >>,
      << NonStr("object") >>, << NonStr("bytes") >>, << NonStr("bool") >> }

KeywordArguments ==
    [inline_elements : ElementTuples, semicontainer_elements : ElementTuples]

\* The keyword arguments a constructed value was made from
KeywordsOf(value) ==
    [inline_elements |-> Strs(value.inline_elements),
     semicontainer_elements |-> Strs(value.semicontainer_elements)]

OptionValues ==
    { [Options EXCEPT !.inline_elements = e[1],
                      !.semicontainer_elements = e[2],
                      !.indentation = l[1],
                      !.max_line_length = l[2]] :
        e \in ElementOptions, l \in LayoutOptions } \cup { Options }

\* The arguments input_xml and output_xml of a run: every input without an
\* output path, and the paths and some XML text with one.
Arguments ==
    { << i, None >> : i \in Inputs \cup InputPaths }
        \cup { << i, OutputPath >> :
                   i \in InputPaths \cup { "<r>foo</r>", "<r><b>y</b> </r>", "<r>",
                                          "<?xml version=\"1.0\" encoding=\"nonsense\"?><r/>" } }

NoDocument ==
    [ok |-> FALSE, nodeType |-> "Document", version |-> None, encoding |-> None,
     standalone |-> None, childNodes |-> << >>]

(***************************************************************************)
(* The run: __init__                                                       *)
(***************************************************************************)

\* The output file does not exist before the run, or it holds something.
Init ==
    /\ \E a \in Arguments : input = a[1] /\ output = a[2]
    /\ files \in IF output = None THEN { FileSystem }
                 ELSE { FileSystem, (OutputPath :> "old") @@ FileSystem }
    /\ parses = << >>
    /\ options \in OptionValues
    /\ kwargs = KeywordsOf(options)
    /\ _dom = NoDocument
    /\ _indentation_level = 0
    /\ _result = << >>
    /\ agenda = << >>
    /\ pc = "init"
    /\ raised = None
    /\ lines = << >>
    /\ line = ""
    /\ indent = ""
    /\ result = << >>
    /\ runs = << >>
    /\ calls = 0

\* Path(input_xml).is_file()
is_file(input_xml) == input_xml \in DOMAIN files

\* _parse_from_file (minidom.parse of the file at the path) and
\* _parse_from_string (minidom.parseString of the argument): the document,
\* or a ValueError (ok is FALSE).
_parse_from(parser, input_xml) ==
    parseString(IF parser = "file" THEN files[input_xml] ELSE input_xml)

\* _parse_input, given what each parser makes of the argument: the document
\* and the parsers called, in the order of the calls.  The ValueError of
\* _parse_from_file is caught by the except clause around the call, and the
\* argument is then parsed as a string.
ParserCalls(input_xml, parsed) ==
    IF ~is_file(input_xml)
    THEN [document |-> parsed["string"], parsers |-> << "string" >>]
    ELSE IF parsed["file"].ok
    THEN [document |-> parsed["file"], parsers |-> << "file" >>]
    ELSE [document |-> parsed["string"], parsers |-> << "file", "string" >>]

\* _parse_input
_parse_input(input_xml) ==
    ParserCalls(input_xml,
                [parser \in IF is_file(input_xml) THEN {"file", "string"} ELSE {"string"} |->
                    _parse_from(parser, input_xml)])

\* __init__ from the return of _parse_input up to the call of _process_node
ParseReturned(parsed) ==
    /\ parses' = parsed.parsers
    /\ IF parsed.document.ok
       THEN /\ _dom' = parsed.document
            /\ pc' = "document"
            /\ raised' = None
       ELSE /\ _dom' = _dom
            /\ pc' = "failed"
            /\ raised' = "ValueError"

\* __init__ with _indentation_level and _result left as they are
ParseInput_shared_state ==
    /\ pc = "init"
    /\ ParseReturned(_parse_input(input))
    /\ UNCHANGED << _indentation_level, _result >>
    /\ UNCHANGED << input, options, agenda, splitter, runs, calls, output, files, kwargs >>

\* __init__ up to the call of _process_node on the document
ParseInput ==
    /\ pc = "init"
    /\ ParseReturned(_parse_input(input))
    /\ _indentation_level' = 0
    /\ _result' = << >>
    /\ UNCHANGED << input, options, agenda, splitter, runs, calls, output, files, kwargs >>

\* The calls _process_all_child_nodes makes for the node at path.
ChildCalls(path) ==
    [k \in 1 .. Len(NodeAt(_dom, path).childNodes) |->
        [op |-> "child", path |-> Append(path, k)]]

\* _process_document_node
ProcessDocumentNode ==
    /\ pc = "document"
    /\ _result' = Append(_result, _process_xml_declaration)
    /\ agenda' = ChildCalls(<< >>)
    /\ pc' = "emit"
    /\ UNCHANGED << input, options, _dom, _indentation_level, raised, splitter, runs, calls, environment >>

\* _process_all_child_nodes: one iteration, up to the call of _process_node
ProcessAllChildNodes ==
    /\ pc = "emit"
    /\ agenda # << >>
    /\ Head(agenda).op = "child"
    /\ _result' = IF _needs_indentation(Head(agenda).path)
                  THEN Append(_result, Indentation(_indentation_level))
                  ELSE _result
    /\ agenda' = << [Head(agenda) EXCEPT !.op = "node"] >> \o Tail(agenda)
    /\ UNCHANGED << input, options, _dom, _indentation_level, pc, raised, splitter, runs, calls, environment >>

\* A mutant of _process_node: a node of a class without a case is passed
\* over, as in the match statement of the older src/xmlcustomformatter.py.
_process_node_passing(nodeType) ==
    CASE nodeType = "Attr" -> "_process_attribute_node"
      [] nodeType = "Comment" -> "_process_comment_node"
      [] nodeType = "Document" -> "_process_document_node"
      [] nodeType = "DocumentType" -> "_process_document_type_node"
      [] nodeType = "Element" -> "_process_element_node"
      [] nodeType = "ProcessingInstruction" -> "_process_processing_instruction_node"
      [] nodeType \in {"Text", "CDATASection"} -> "_process_text_node"
      [] OTHER -> "pass"

\* _process_node: the method the match statement hands a node of the class
\* to, or None where it raises TypeError.  A CDATASection is a Text.
_process_node(nodeType) ==
    CASE nodeType = "Attr" -> "_process_attribute_node"
      [] nodeType = "Comment" -> "_process_comment_node"
      [] nodeType = "Document" -> "_process_document_node"
      [] nodeType = "DocumentType" -> "_process_document_type_node"
      [] nodeType = "Element" -> "_process_element_node"
      [] nodeType = "ProcessingInstruction" -> "_process_processing_instruction_node"
      [] nodeType \in {"Text", "CDATASection"} -> "_process_text_node"
      [] OTHER -> None

\* The traversal has called _process_node, which hands the node to method.
Dispatched(method) ==
    /\ pc = "emit"
    /\ agenda # << >>
    /\ Head(agenda).op = "node"
    /\ _process_node(Child(Head(agenda).path).nodeType) = method

\* _process_element_node, up to the processing of the child nodes
ProcessElementNode ==
    /\ Dispatched("_process_element_node")
    /\ LET path == Head(agenda).path
           element == Child(path)
       IN  /\ _result' = _result \o ElementStartFragments(element, _indentation_level)
           /\ IF _is_empty_element(element)
              THEN /\ agenda' = Tail(agenda)
                   /\ _indentation_level' = _indentation_level
              ELSE /\ agenda' = ChildCalls(path) \o << [op |-> "end", path |-> path] >>
                                    \o Tail(agenda)
                   /\ _indentation_level' = _increase_indentation_level(_indentation_level)
    /\ UNCHANGED << input, options, _dom, pc, raised, splitter, runs, calls, environment >>

\* The non-empty element methods, after the processing of the child nodes
ProcessElementEnd ==
    /\ pc = "emit"
    /\ agenda # << >>
    /\ Head(agenda).op = "end"
    /\ LET element == Child(Head(agenda).path)
           indented == IF ElementGroup(element) # "container"
                          /\ _result_endswith_linebreak(_result)
                       THEN Append(_result, Indentation(_indentation_level))
                       ELSE _result
           decreased == _decrease_indentation_level(_indentation_level)
       IN  /\ _indentation_level' = decreased.level
           /\ raised' = decreased.raised
           /\ IF decreased.raised # None
              THEN /\ _result' = indented
                   /\ pc' = "failed"
                   /\ agenda' = agenda
              ELSE /\ _result' =
                        IF ElementGroup(element) = "container"
                        THEN _result \o << "\n", Indentation(decreased.level),
                                           _process_element_end_tag(element), "\n" >>
                        ELSE Append(indented, _process_element_end_tag(element))
                   /\ pc' = pc
                   /\ agenda' = Tail(agenda)
    /\ UNCHANGED << input, options, _dom, splitter, runs, calls, environment >>

\* _process_text_node: _process_text or _process_cdata_section
ProcessTextNode ==
    /\ Dispatched("_process_text_node")
    /\ LET text == Child(Head(agenda).path)
       IN  _result' = Append(_result,
                             IF text.nodeType = "Text"
                             THEN _process_text(text, _result)
                             ELSE _process_cdata_section(text))
    /\ agenda' = Tail(agenda)
    /\ UNCHANGED << input, options, _dom, _indentation_level, pc, raised, splitter, runs, calls, environment >>

\* _process_comment_node
ProcessCommentNode ==
    /\ Dispatched("_process_comment_node")
    /\ _result' = Append(_result,
                         _process_comment_node(Child(Head(agenda).path), _indentation_level))
    /\ agenda' = Tail(agenda)
    /\ UNCHANGED << input, options, _dom, _indentation_level, pc, raised, splitter, runs, calls, environment >>

\* _process_processing_instruction_node
ProcessProcessingInstructionNode ==
    /\ Dispatched("_process_processing_instruction_node")
    /\ _result' = Append(_result,
                         _process_processing_instruction_node(Child(Head(agenda).path),
                                                              _indentation_level))
    /\ agenda' = Tail(agenda)
    /\ UNCHANGED << input, options, _dom, _indentation_level, pc, raised, splitter, runs, calls, environment >>

\* _process_document_type_node
ProcessDocumentTypeNode ==
    /\ Dispatched("_process_document_type_node")
    /\ _result' = Append(_result,
                         _process_document_type_node(Child(Head(agenda).path),
                                                     _indentation_level))
    /\ _indentation_level' =
           _construct_internal_subset_level(Child(Head(agenda).path).internalSubset,
                                            _indentation_level)
    /\ agenda' = Tail(agenda)
    /\ UNCHANGED << input, options, _dom, pc, raised, splitter, runs, calls, environment >>

\* _postprocess, up to the loop of _split_too_long_lines
Postprocess ==
    /\ pc = "emit"
    /\ agenda = << >>
    /\ lines' = _postprocess(_result)
    /\ result' = << >>
    /\ pc' = "for"
    /\ UNCHANGED << input, options, _dom, emitter, raised, line, indent, runs, calls, environment >>

\* _split_too_long_lines: the for loop takes the next line, or returns to
\* __init__, which writes the output file if there is an output path.
SplitNextLine ==
    /\ pc = "for"
    /\ IF lines = << >>
       THEN /\ _result' = result
            /\ pc' = IF output = None THEN "done" ELSE "write"
            /\ UNCHANGED << lines, line, indent >>
       ELSE /\ line' = Head(lines)
            /\ indent' = Slice(Head(lines), 0,
                               Len(Head(lines)) - Len(lstripChars(Head(lines), {" "})))
            /\ lines' = Tail(lines)
            /\ pc' = "while"
            /\ _result' = _result
    /\ UNCHANGED << input, options, _dom, _indentation_level, agenda, raised, result, runs, calls, environment >>

\* A mutant of SplitTooLongLine: an iteration that does not shorten the line
\* does not leave the loop.
SplitTooLongLineUnguarded ==
    /\ pc = "while"
    /\ LET split_at == _find_split_position(line)
           current_line == rstrip(Slice(line, 0, split_at))
           new_line == indent \o lstrip(Slice(line, split_at + 1, Len(line)))
       IN  IF ~(Len(line) > options.max_line_length) \/ split_at = NoSplit
           THEN /\ result' = Append(result, line)
                /\ line' = line
                /\ pc' = "for"
           ELSE /\ result' = Append(result, current_line \o "\n")
                /\ line' = new_line
                /\ pc' = "while"
    /\ UNCHANGED << input, options, _dom, emitter, raised, lines, indent, runs, calls, environment >>

\* A mutant of SplitTooLongLine: the rest of the line starts one character
\* further on.
SplitTooLongLineSkipping ==
    /\ pc = "while"
    /\ LET old_length == Len(line)
           split_at == _find_split_position(line)
           current_line == rstrip(Slice(line, 0, split_at))
           new_line == indent \o lstrip(Slice(line, split_at + 2, Len(line)))
           new_length == Len(new_line)
       IN  IF ~(Len(line) > options.max_line_length) \/ split_at = NoSplit
           THEN /\ result' = Append(result, line)
                /\ line' = line
                /\ pc' = "for"
           ELSE IF ~(new_length < old_length)
           THEN /\ result' = Append(result, new_line)
                /\ line' = new_line
                /\ pc' = "for"
           ELSE /\ result' = Append(result, current_line \o "\n")
                /\ line' = new_line
                /\ pc' = "while"
    /\ UNCHANGED << input, options, _dom, emitter, raised, lines, indent, runs, calls, environment >>

\* _split_too_long_lines: one test of the while loop and the iteration, or
\* the statement after the loop, that follows
SplitTooLongLine ==
    /\ pc = "while"
    /\ LET old_length == Len(line)
           split_at == _find_split_position(line)
           current_line == rstrip(Slice(line, 0, split_at))
           new_line == indent \o lstrip(Slice(line, split_at + 1, Len(line)))
           new_length == Len(new_line)
       IN  IF ~(Len(line) > options.max_line_length) \/ split_at = NoSplit
           THEN /\ result' = Append(result, line)
                /\ line' = line
                /\ pc' = "for"
           ELSE IF ~(new_length < old_length)
           THEN /\ result' = Append(result, new_line)
                /\ line' = new_line
                /\ pc' = "for"
           ELSE /\ result' = Append(result, current_line \o "\n")
                /\ line' = new_line
                /\ pc' = "while"
    /\ UNCHANGED << input, options, _dom, emitter, raised, lines, indent, runs, calls, environment >>

\* The encodings open() knows.
Codecs == { "UTF-8", "ISO-8859-1", "ascii" }

\* self._encoding
_encoding == IF _dom.encoding # None THEN _dom.encoding ELSE default_encoding

\* _write_to_output_file: open(output_file, "w", encoding=encoding).  The
\* file is created or truncated, unless the path cannot be opened for
\* writing at all; an unknown encoding is found after the truncation.
OpenOutputFile ==
    /\ pc = "write"
    /\ \E opened \in BOOLEAN :
           IF ~opened
           THEN /\ files' = files
                /\ pc' = "failed"
                /\ raised' = "OSError"
           ELSE /\ files' = (output :> "") @@ files
                /\ IF _encoding \in Codecs
                   THEN pc' = "writing" /\ raised' = None
                   ELSE pc' = "failed" /\ raised' = "LookupError"
    /\ UNCHANGED << input, options, _dom, emitter, splitter, runs, calls, output, parses, kwargs >>

\* _write_to_output_file: f.writelines(result) and the end of the with
\* statement.  The write of a line can fail (the line cannot be encoded, the
\* device is full); the lines before it are then in the file.
WriteLines ==
    /\ pc = "writing"
    /\ \E written \in 0 .. Len(_result) :
           /\ files' = (output :> join(SubSeq(_result, 1, written))) @@ files
           /\ IF written = Len(_result)
              THEN pc' = "done" /\ raised' = None
              ELSE pc' = "failed" /\ raised' = "OSError"
    /\ UNCHANGED << input, options, _dom, emitter, splitter, runs, calls, output, parses, kwargs >>

\* A call of _increase_indentation_level on the constructed formatter
IncreaseIndentationLevel ==
    /\ pc = "done"
    /\ calls < MaxCalls
    /\ calls' = calls + 1
    /\ _indentation_level' = _increase_indentation_level(_indentation_level)
    /\ raised' = None
    /\ UNCHANGED << input, options, _dom, _result, agenda, pc, splitter, runs, environment >>

\* A call of _decrease_indentation_level on the constructed formatter
DecreaseIndentationLevel ==
    /\ pc = "done"
    /\ calls < MaxCalls
    /\ calls' = calls + 1
    /\ _indentation_level' = _decrease_indentation_level(_indentation_level).level
    /\ raised' = _decrease_indentation_level(_indentation_level).raised
    /\ UNCHANGED << input, options, _dom, _result, agenda, pc, splitter, runs, environment >>

\* The nodes handed to _process_node on a constructed formatter: an
\* attribute, a comment, a text, a document type, and nodes of the other
\* classes of xml.dom.minidom.
CalledNodes ==
    { [nodeType |-> "Attr", name |-> "k", value |-> "a\"b"],
      LeafNode("Comment", "#comment", " c  d"),
      LeafNode("Text", "#text", " x  y"),
      [nodeType |-> "DocumentType", name |-> "r", publicId |-> None,
       systemId |-> "r.dtd", internalSubset |-> None],
      [nodeType |-> "DocumentFragment"], [nodeType |-> "Entity"],
      [nodeType |-> "Notation"], [nodeType |-> "Node"] }

\* The documents whose formatter _process_node is called on.
CalledInputs == { "<r/>" }

\* A call of _process_node on the constructed formatter with a node that
\* has no child nodes
ProcessNodeCall(node) ==
    /\ pc = "done"
    /\ calls < MaxCalls
    /\ input \in CalledInputs
    /\ calls' = calls + 1
    /\ raised' = IF _process_node(node.nodeType) = None THEN "TypeError" ELSE None
    /\ _result' =
           CASE _process_node(node.nodeType) = "_process_attribute_node" ->
                    Append(_result, _process_attribute_node(node))
             [] _process_node(node.nodeType) = "_process_comment_node" ->
                    Append(_result, _process_comment_node(node, _indentation_level))
             [] _process_node(node.nodeType) = "_process_document_type_node" ->
                    Append(_result, _process_document_type_node(node, _indentation_level))
             [] _process_node(node.nodeType) = "_process_text_node" ->
                    Append(_result, _process_text(node, _result))
             [] OTHER -> _result
    /\ UNCHANGED << input, options, _dom, _indentation_level, agenda, pc, splitter,
                    runs, environment >>

ProcessNode == \E node \in CalledNodes : ProcessNodeCall(node)

\* An assignment to a field of the options of the constructed formatter
SetOptionsField ==
    /\ pc = "done"
    /\ calls < MaxCalls
    /\ input \in CalledInputs
    /\ calls' = calls + 1
    /\ \E name \in {"indentation", "max_line_length"}, new \in {0, 8} :
           /\ options' = __setattr__(options, name, new).value
           /\ raised' = __setattr__(options, name, new).raised
    /\ UNCHANGED << input, _dom, emitter, pc, splitter, runs, environment >>

\* A new formatter is constructed on the result of this one, with the same
\* options.
Reformat ==
    /\ pc = "done"
    /\ Len(runs) + 1 < MaxRuns
    /\ runs' = Append(runs, [input |-> input, output |-> get_result_as_string])
    /\ input' = get_result_as_string
    /\ _dom' = NoDocument
    /\ _indentation_level' = 0
    /\ _result' = << >>
    /\ agenda' = << >>
    /\ pc' = "init"
    /\ raised' = None
    /\ lines' = << >>
    /\ line' = ""
    /\ indent' = ""
    /\ result' = << >>
    /\ calls' = 0
    /\ output' = None
    /\ parses' = << >>
    /\ UNCHANGED << options, files, kwargs >>

\* The arguments a second formatter is constructed on: documents with text,
\* nested elements, a comment, a processing instruction and a document type,
\* and the path of a file.
RerunInputs ==
    { "<r>foo</r>", "<r><b>y</b> x \t y</r>", "<r><!-- c  d--><b>y</b></r>",
      "<r>foo<b>x<!--c--></b><?t d?>y</r>",
      "<!DOCTYPE r PUBLIC \"p\" \"s\"><r>foo</r>", "input.xml" }

\* A new formatter is constructed on the same argument, with the same
\* options, after the calls made on this one.  The attributes of the new
\* object are assigned in __init__; until then _indentation_level and _result
\* hold what the earlier formatter left.
Rerun ==
    /\ pc = "done"
    /\ Len(runs) + 1 < MaxRuns
    /\ input \in RerunInputs
    /\ runs' = Append(runs, [input |-> input, output |-> get_result_as_string])
    /\ _dom' = NoDocument
    /\ agenda' = << >>
    /\ pc' = "init"
    /\ raised' = None
    /\ lines' = << >>
    /\ line' = ""
    /\ indent' = ""
    /\ result' = << >>
    /\ calls' = 0
    /\ output' = None
    /\ parses' = << >>
    /\ UNCHANGED << input, options, _indentation_level, _result, files, kwargs >>

Next ==
    \/ ParseInput
    \/ ProcessDocumentNode
    \/ ProcessAllChildNodes
    \/ ProcessElementNode
    \/ ProcessElementEnd
    \/ ProcessTextNode
    \/ ProcessCommentNode
    \/ ProcessProcessingInstructionNode
    \/ ProcessDocumentTypeNode
    \/ Postprocess
    \/ SplitNextLine
    \/ SplitTooLongLine
    \/ OpenOutputFile
    \/ WriteLines
    \/ ProcessNode
    \/ SetOptionsField
    \/ IncreaseIndentationLevel
    \/ DecreaseIndentationLevel
    \/ Reformat
    \/ Rerun

Spec == Init /\ [][Next]_vars

(***************************************************************************)
(* Runs with the layout flags set                                          *)
(***************************************************************************)

\* The flags of Options
Flags ==
    { "sorted_attributes", "comments_have_trailing_spaces", "comments_start_new_lines",
      "doctype_declaration_starts_new_line", "doctype_subset_parts_start_new_lines",
      "processing_instructions_start_new_lines" }

\* Options with the flags of the given set False and the others True
WithFlagsOff(value, off) ==
    [name \in DOMAIN value |-> IF name \in off THEN FALSE ELSE value[name]]

\* The options of the runs with flags: r a container, an inline or a
\* semicontainer element, with no flag, one flag or every flag False.
FlagOptionValues ==
    { WithFlagsOff([Options EXCEPT !.indentation = 2,
                                   !.inline_elements = e[1],
                                   !.semicontainer_elements = e[2]], off) :
        e \in { << << >>, << >> >>, << << "r" >>, << >> >>, << << "b" >>, << "r" >> >> },
        off \in { {} } \cup { { flag } : flag \in Flags } \cup { Flags } }

\* The documents of the runs with flags: attributes out of order, comments
\* and processing instructions with and without data at several levels, a
\* document type with an internal subset.
FlagInputs ==
    { "<r/>",
      "<r c=\"3\" a=\"1\" b=\"2\"/>",
      "<r b=\"2\" a=\"1\">foo</r>",
      "<r><b B=\"1\" a=\"2\" A=\"3\"/> <!-- c  d --><?t  d ?></r>",
      "<r><?t?><!----><b><!--c--></b>x<!--d--></r>",
      "<?p  q ?><!DOCTYPE r [ %p; <!ELEMENT r ANY>]><!--c--><r>foo<?t d?> </r><?e?>",
      "<r>foo<b>x<!--c--></b><?t d?>y</r>",
      "<!DOCTYPE r [<!ENTITY e \"a>b\">]><r/>",
      "<r>" }

FlagArguments ==
    { << i, None >> : i \in FlagInputs } \cup { << "input.xml", OutputPath >> }

FlagsInit ==
    /\ \E a \in FlagArguments : input = a[1] /\ output = a[2]
    /\ files = FileSystem
    /\ parses = << >>
    /\ options \in FlagOptionValues
    /\ kwargs = KeywordsOf(options)
    /\ _dom = NoDocument
    /\ _indentation_level = 0
    /\ _result = << >>
    /\ agenda = << >>
    /\ pc = "init"
    /\ raised = None
    /\ lines = << >>
    /\ line = ""
    /\ indent = ""
    /\ result = << >>
    /\ runs = << >>
    /\ calls = 0

FlagsSpec == FlagsInit /\ [][Next]_vars

(***************************************************************************)
(* The construction of Options                                             *)
(***************************************************************************)

\* Options is called with keyword arguments and the formatter, if the call
\* returns, with its value; until then options is the default value.
OptionsInit ==
    /\ kwargs \in KeywordArguments
    /\ options = Options
    /\ input \in { "<r/>", "<r>" }
    /\ output = None
    /\ files = FileSystem
    /\ parses = << >>
    /\ _dom = NoDocument
    /\ _indentation_level = 0
    /\ _result = << >>
    /\ agenda = << >>
    /\ pc = "options"
    /\ raised = None
    /\ lines = << >>
    /\ line = ""
    /\ indent = ""
    /\ result = << >>
    /\ runs = << >>
    /\ calls = 0

\* The call of Options: the fields are set and __post_init__ validates them.
ConstructOptions ==
    /\ pc = "options"
    /\ IF __post_init__(kwargs) # None \/ PostInitFromSpec(kwargs) # None
       THEN /\ raised' = "TypeError"
            /\ pc' = "failed"
            /\ options' = options
       ELSE /\ raised' = None
            /\ pc' = "init"
            /\ options' = [Options EXCEPT
                               !.inline_elements = Values(kwargs.inline_elements),
                               !.semicontainer_elements = Values(kwargs.semicontainer_elements)]
    /\ UNCHANGED << input, _dom, emitter, splitter, runs, calls, environment >>

OptionsNext ==
    \/ ConstructOptions
    \/ ParseInput

OptionsSpec == OptionsInit /\ [][OptionsNext]_vars

(***************************************************************************)
(* The reflow of single lines                                              *)
(***************************************************************************)

\* The greatest length of a line handed to the loop on its own.
MaxLineLen == 4

\* The values of max_line_length: below, within and above the lengths of
\* the lines.
ReflowLimits == (0 - MaxLineLen - 2) .. (MaxLineLen + 2)

RECURSIVE LinesOfLength(_)
\* The strings of n spaces, tabs and letters.
LinesOfLength(n) ==
    IF n = 0 THEN { "" }
    ELSE { l \o c : l \in LinesOfLength(n - 1), c \in {" ", "\t", "a"} }

\* Lines as _postprocess leaves them, without their line break: not empty, no
\* white space at the end.
ReflowLines ==
    { l \o "a" : l \in UNION { LinesOfLength(n) : n \in 0 .. MaxLineLen - 1 } }

\* The lists _postprocess hands over: the first line has no white space at
\* its start either, and every line but the last keeps its line break.
ReflowLists ==
    { << l >> : l \in { f \in ReflowLines : lstrip(f) = f } }
        \cup { << "a a\n", l >> : l \in ReflowLines }
        \cup { << "a a\n", l \o "\n", "a" >> : l \in ReflowLines }
        \cup { << "ab cd\n", " \tef  gh" >>, << "a\n", "  bc d\tef\n", " g h" >> }

\* _split_too_long_lines is entered with such a list under any
\* max_line_length.
ReflowInit ==
    /\ input = ""
    /\ options \in { [Options EXCEPT !.max_line_length = m] :
                         m \in ReflowLimits }
    /\ _dom = NoDocument
    /\ _indentation_level = 0
    /\ _result = << >>
    /\ agenda = << >>
    /\ pc = "for"
    /\ raised = None
    /\ lines \in ReflowLists
    /\ line = ""
    /\ indent = ""
    /\ result = << >>
    /\ runs = << >>
    /\ calls = 0
    /\ output = None
    /\ files = FileSystem
    /\ parses = << >>
    /\ kwargs = KeywordsOf(options)

ReflowNext ==
    \/ SplitNextLine
    \/ SplitTooLongLine

\* The loops are sequential code: a step that can be taken is taken.
ReflowSpec == ReflowInit /\ [][ReflowNext]_vars /\ WF_vars(ReflowNext)

(***************************************************************************)
(* Properties                                                              *)
(***************************************************************************)

\* The fragments a step appends to the output buffer.
Appended == SubSeq(_result', Len(_result) + 1, Len(_result'))

\* The document element of the parsed document.
documentElement ==
    _dom.childNodes[CHOOSE k \in DOMAIN _dom.childNodes : IsElement(_dom.childNodes[k])]

\* A line has interior white space when a space lies after its first and
\* before its last character that is not white space.
HasInteriorWhitespace(l) == Contains(strip(l), " ")

\* The length of a line without its line break.
RenderedLength(l) == Len(l) - (IF EndsWith(l, "\n") THEN 1 ELSE 0)

\* C1: in the result of a run, every line that has interior white space is
\* at most max_line_length characters long.
LineLengthInvariant ==
    pc = "done" =>
        \A k \in DOMAIN _result :
            HasInteriorWhitespace(_result[k]) =>
                RenderedLength(_result[k]) <= options.max_line_length

\* C2: formatting the result of a run again, with the same options, gives
\* the same result.
Idempotence ==
    (pc = "done" /\ runs # << >>) => get_result_as_string = runs[Len(runs)].output

\* A step that requests a decrease of the indentation level.
DecreaseRequested == DecreaseIndentationLevel \/ ProcessElementEnd

\* A step that requests an increase of the indentation level.
IncreaseRequested ==
    \/ IncreaseIndentationLevel
    \/ ProcessElementNode /\ agenda' # Tail(agenda)

\* C3: the indentation level is never negative; a decrease requested at
\* level 0 raises a ValueError and leaves the level at 0; any other decrease
\* lowers the level by one and an increase raises it by one, so that an
\* increase followed by a decrease restores the level.
IndentationNeverNegative ==
    /\ [](_indentation_level >= 0)
    /\ [][/\ DecreaseRequested /\ _indentation_level = 0 =>
                 raised' = "ValueError" /\ _indentation_level' = 0
          /\ DecreaseRequested /\ _indentation_level > 0 =>
                 raised' = None /\ _indentation_level' = _indentation_level - 1
          /\ IncreaseRequested =>
                 /\ _indentation_level' = _indentation_level + 1
                 /\ _decrease_indentation_level(_indentation_level').level
                        = _indentation_level]_vars

\* C3, witness: a decrease was requested of a constructed formatter at
\* level 0.
DecreaseBelowZeroRaised ==
    pc = "done" /\ raised = "ValueError" /\ _indentation_level = 0

\* An element whose tag name is listed as inline or as semicontainer.
ListedElement(node) ==
    /\ node.nodeType = "Element"
    /\ node.nodeName \in Names(options.inline_elements) \cup Names(options.semicontainer_elements)

\* A Text or CDATA node.
TextOrCDATA(node) == node.nodeType \in {"Text", "CDATASection"}

\* The three conditions of the separator indentation, for the child at path.
SeparatorConditions(path) ==
    LET child == NodeAt(_dom, path)
        first == path[Len(path)] = 1
        parent == NodeAt(_dom, SubSeq(path, 1, Len(path) - 1))
        previous == NodeAt(_dom, [path EXCEPT ![Len(path)] = @ - 1])
    IN  /\ ~(first /\ ListedElement(parent))
        /\ first \/ ~ListedElement(previous)
        /\ first \/ ~ /\ TextOrCDATA(previous)
                      /\ \/ TextOrCDATA(child)
                         \/ /\ child.nodeType = "Element"
                            /\ child.nodeName \in Names(options.inline_elements)

\* The child at path and its previous sibling are both Text or CDATA nodes.
AdjacentText(path) ==
    /\ path[Len(path)] > 1
    /\ TextOrCDATA(NodeAt(_dom, path))
    /\ TextOrCDATA(NodeAt(_dom, [path EXCEPT ![Len(path)] = @ - 1]))

\* C4: before a child node is emitted, the indentation of the current level
\* is appended if and only if the three conditions hold, and nothing is
\* appended otherwise; nothing is appended between two adjacent Text or
\* CDATA siblings.
SeparatorIffThreeConditions ==
    [][ProcessAllChildNodes =>
          LET path == Head(agenda).path
          IN  /\ SeparatorConditions(path) =>
                     Appended = << Indentation(_indentation_level) >>
              /\ ~SeparatorConditions(path) => _result' = _result
              /\ AdjacentText(path) => _result' = _result]_vars

\* C4, witness: a Text or CDATA node is about to be emitted right after the
\* fragment of its previous sibling, a CDATA section.
AdjacentTextGlued ==
    /\ pc = "emit"
    /\ agenda # << >>
    /\ Head(agenda).op = "node"
    /\ AdjacentText(Head(agenda).path)
    /\ _result[Len(_result)] = "<![CDATA[d]]>"

\* The text of the output buffer ends in white space.
BufferEndsInWhitespace ==
    \E c \in {" ", "\t", "\n"} : EndsWith(join(_result), c)

\* No white space of s other than single spaces between other characters.
SingleSpaced(s) ==
    \A k \in 0 .. Len(s) - 1 :
        CharAt(s, k) \in {" ", "\t", "\n"} =>
            CharAt(s, k) = " " /\ CharAt(s, k + 1) # " "

\* C5: the fragment emitted for a Text node has every run of white space
\* of its data as a single space, and it does not begin with a space when
\* the text of the output buffer ends in white space.
TextWhitespaceCollapsed ==
    [][(ProcessTextNode /\ Child(Head(agenda).path).nodeType = "Text") =>
          /\ SingleSpaced(Appended[1])
          /\ reduce_redundant_whitespace(Child(Head(agenda).path).data)
                 \in { Appended[1], " " \o Appended[1] }
          /\ BufferEndsInWhitespace => ~StartsWithAt(Appended[1], 0, " ")]_vars

RECURSIVE AttributesIn(_)
\* The attributes of the elements of a tree: element name, attribute name
\* and attribute value.
AttributesIn(node) ==
    { << node.nodeName, node.attributes[k].name, node.attributes[k].value >> :
        k \in DOMAIN node.attributes }
        \cup UNION { AttributesIn(node.childNodes[k]) : k \in DOMAIN node.childNodes }

\* The attributes of the elements of a document.
DocumentAttributes(document) ==
    UNION { AttributesIn(document.childNodes[k]) : k \in DOMAIN document.childNodes }

\* C6: the attribute values of the result of a run, parsed again, are the
\* attribute values of the document the run formatted.
AttributeRoundTrip ==
    (runs # << >> /\ pc \notin {"init", "failed"}) =>
        DocumentAttributes(_dom)
            = DocumentAttributes(parseString(runs[Len(runs)].input))

\* An element that has no children, or exactly one child that is a Text or
\* CDATA node whose data is empty after stripping white space.
ChildlessOrBlank(element) ==
    \/ Len(element.childNodes) = 0
    \/ /\ Len(element.childNodes) = 1
       /\ TextOrCDATA(element.childNodes[1])
       /\ strip(element.childNodes[1].data) = ""

\* The fragments of a step close the start tag as a self-closing tag.
SelfClosing(fragments) == \E k \in DOMAIN fragments : fragments[k] = "/>"

\* C7, as stated: an element is rendered with a self-closing tag exactly
\* when it has no children or one child that is a blank Text or CDATA node.
SelfClosingIffChildlessOrBlank ==
    [][ProcessElementNode =>
          (SelfClosing(Appended) <=> ChildlessOrBlank(Child(Head(agenda).path)))]_vars

\* C7, amended: an element is rendered with a self-closing tag, whatever its
\* category, exactly when it has no child nodes; it then has no end tag and
\* the indentation level stays.
SelfClosingIffChildless ==
    [][ProcessElementNode =>
          LET element == Child(Head(agenda).path)
          IN  /\ SelfClosing(Appended) <=> Len(element.childNodes) = 0
              /\ Len(element.childNodes) = 0 =>
                     /\ agenda' = Tail(agenda)
                     /\ _indentation_level' = _indentation_level
              /\ Len(element.childNodes) # 0 =>
                     /\ agenda'[Len(element.childNodes) + 1]
                            = [op |-> "end", path |-> Head(agenda).path]
                     /\ \E k \in DOMAIN Appended : Appended[k] = ">"]_vars

\* C7, witness: an inline element without child nodes was rendered with a
\* self-closing tag.
InlineSelfClosed ==
    /\ pc = "emit"
    /\ Len(_result) > 1
    /\ _result[Len(_result)] = "/>"
    /\ "a" \in Names(options.inline_elements)

\* The documents of the model whose document element has no child nodes.
ChildlessDocuments ==
    { "<r/>", "<r></r>", "<r><![CDATA[]]></r>", "<r foo=\"bar\"/>",
      "<r a=\"&#10; &#9;y\"/>", "<?xml version=\"1.1\"?><r/>",
      "<!DOCTYPE r []><r/>", "<!DOCTYPE r [<!ENTITY e \"a>b\">]><r/>",
      "<!DOCTYPE r SYSTEM \"s\" [\n<!ELEMENT r  ANY> %p;<!--c > d--> <?p  q?>\n]><r/>",
      "<?xml version=\"1.0\" encoding=\"nonsense\"?><r/>",
      "<?xml version=\"1.0\" standalone=\"yes\"?><!--c--><r/><?p d?>" }

\* C8: the document element is classified empty exactly when the document
\* gives it no child nodes: not with a white-space text, a text, a comment,
\* a processing instruction or a non-empty CDATA section in it, with or
\* without attributes.
EmptyIffNoChildNodes ==
    (runs = << >> /\ pc \notin {"init", "failed"}) =>
        (_is_empty_element(documentElement) <=> input \in ChildlessDocuments)

\* C8, witness: the document whose document element holds one space was
\* formatted, and its document element has an end tag.
BlankElementNotEmpty ==
    /\ input = "<r> </r>"
    /\ pc = "done"
    /\ _result[Len(_result)] = "</r>"

\* The category of an element, from its tag name and the configuration.
Category(tagName) ==
    CASE tagName \in Names(options.inline_elements) -> "inline"
      [] /\ tagName \notin Names(options.inline_elements)
         /\ tagName \in Names(options.semicontainer_elements) -> "semicontainer"
      [] OTHER -> "container"

\* The category the layout of a start tag shows: an inline element starts
\* on the current line, a container element ends the line after its tag.
StartLayout(fragments) ==
    IF fragments[1] # "\n" THEN "inline"
    ELSE IF fragments[Len(fragments)] = "\n" THEN "container"
    ELSE "semicontainer"

\* The category the layout of an end tag shows.
EndLayout(fragments) ==
    IF fragments[1] = "\n" THEN "container" ELSE "not container"

\* The start tag of an element is laid out by the category of its tag name.
StartTagByCategory ==
    ProcessElementNode =>
        LET tagName == Child(Head(agenda).path).nodeName
        IN  /\ StartLayout(Appended) = Category(tagName)
            /\ Category(tagName) = "inline" => Appended[1] = "<" \o tagName

\* The end tag of an element is laid out by the category of its tag name.
EndTagByCategory ==
    (ProcessElementEnd /\ raised' = None) =>
        LET tagName == Child(Head(agenda).path).nodeName
        IN  EndLayout(Appended) = "container" <=> Category(tagName) = "container"

\* No separator after a previous sibling, nor for the first child of a
\* parent, that is an element of a category other than container.
SeparatorByCategory ==
    ProcessAllChildNodes =>
        LET path == Head(agenda).path
        IN  /\ (/\ HasPreviousSibling(path)
                /\ IsElement(previousSibling(path))
                /\ Category(previousSibling(path).nodeName) # "container")
               => _result' = _result
            /\ (/\ ~HasPreviousSibling(path)
                /\ IsElement(parentNode(path))
                /\ Category(parentNode(path).nodeName) # "container")
               => _result' = _result

\* C9: the element handler lays an element out by its category, which its
\* tag name and the configuration determine: inline if the tag is listed as
\* inline, else semicontainer if it is listed as semicontainer, else
\* container; the separator checks take an element of a category other
\* than container as an inline or semicontainer element.
CategoryByTagName ==
    [][StartTagByCategory /\ EndTagByCategory /\ SeparatorByCategory]_vars

\* C9, witness: the end tag of an element listed both as inline and as
\* semicontainer is about to be emitted.
ListedTwiceElementEnds ==
    /\ pc = "emit"
    /\ agenda # << >>
    /\ Head(agenda).op = "end"
    /\ Child(Head(agenda).path).nodeName
           \in Names(options.inline_elements) \cap Names(options.semicontainer_elements)

\* The 0-based indices of the spaces of a line that are among its first n
\* characters, and of those that are not.
SpacesUpTo(l, n) == { k \in 0 .. Len(l) - 1 : CharAt(l, k) = " " /\ k + 1 <= n }
SpacesAfter(l, n) == { k \in 0 .. Len(l) - 1 : CharAt(l, k) = " " /\ k + 1 > n }

SplitKeepsIndentation ==
    [][SplitTooLongLine /\ pc' = "while" =>
          LET head == result'[Len(result')]
              tail == Slice(line', Len(indent), Len(line'))
          IN  /\ StartsWithAt(head, 0, indent)
              /\ CharAt(head, Len(indent)) # " "
              /\ head = rstrip(head) \o "\n"
              /\ line' = indent \o tail
              /\ tail = lstrip(tail)]_vars

RECURSIVE PendingWork(_)
\* The work the for loop has left: every line not yet visited is taken once
\* and is then as long as it is.
PendingWork(ls) ==
    IF ls = << >> THEN 0 ELSE Len(Head(ls)) + 2 + PendingWork(Tail(ls))

\* A bound on the number of steps the loops have left.
ReflowVariant ==
    PendingWork(lines)
        + (IF pc = "while" THEN Len(line) + 1 ELSE 0)
        + (IF pc = "done" THEN 0 ELSE 1)

\* An iteration of the while loop that goes on splitting leaves a shorter
\* line, and every step of the loops lowers the variant.
ShortensOrStops ==
    /\ SplitTooLongLine /\ pc' = "while" => Len(line') < Len(line)
    /\ ReflowNext => ReflowVariant' < ReflowVariant

\* C12: for every line and every integer max_line_length each iteration of
\* the reflow loop strictly shortens the remaining line or stops splitting it,
\* so that the number of steps left is bounded and falls with every step:
\* no run of the loops is infinite, and none leaves them by an exception.
ReflowTerminates ==
    /\ [][ShortensOrStops]_vars
    /\ [](ReflowVariant >= 0 /\ raised = None /\ pc \in {"for", "while", "done"})

\* The loop stopped splitting a line that is still too long and has a space,
\* under a max_line_length that is zero or negative.
StoppedWithoutProgress ==
    /\ pc = "for"
    /\ options.max_line_length <= 0
    /\ result # << >>
    /\ result[Len(result)] = line
    /\ Len(line) > options.max_line_length
    /\ Contains(line, " ")

\* What the file system holds at the output path: its content, or nothing.
Destination(fs) == IF output \in DOMAIN fs THEN << fs[output] >> ELSE << >>

\* The output file is as it was, or it holds the complete result.
KeptOrComplete ==
    \/ Destination(files') = Destination(files)
    \/ /\ pc' = "done"
       /\ Destination(files') = << join(_result') >>

\* C13: in a run with an output path every step, whatever fails, leaves the
\* output file as it was before the run or with the complete formatted
\* result in it, never empty or with a part of the result.
WrittenFullyOrNotAtAll == [][output # None => KeptOrComplete]_vars

\* C14: the argument is parsed as a file exactly when it names an existing
\* file and as XML text otherwise, by one call of one parser and no second
\* attempt, and a parse failure ends the construction with a ValueError
\* before anything is emitted or written.
ParsedOnceAsFileOrText ==
    pc # "init" =>
        /\ parses = << IF is_file(input) THEN "file" ELSE "string" >>
        /\ ~_dom.ok =>
               /\ pc = "failed"
               /\ raised = "ValueError"
               /\ _result = << >>
               /\ Destination(files) \in { << >>, << "old" >> }

\* C15: when the argument is a path that names no existing file, the
\* construction fails with a FileNotFoundError, which is not the ValueError
\* raised for XML that is not well-formed.
MissingFileNotFound ==
    pc # "init" /\ input \in InputPaths /\ ~is_file(input) =>
        pc = "failed" /\ raised = "FileNotFoundError"

\* The seven kinds of node _process_node has a case for.
HandledClasses ==
    { "Attr", "Comment", "Document", "DocumentType", "Element",
      "ProcessingInstruction", "Text", "CDATASection" }

\* A call with a node of a handled kind raises no TypeError; a call with a
\* node of any other kind raises it and leaves buffer and level as they are.
HandledOrTypeError(node) ==
    ProcessNodeCall(node) =>
        IF node.nodeType \in HandledClasses
        THEN raised' = None /\ Len(_result') = Len(_result) + 1
        ELSE /\ raised' = "TypeError"
             /\ _result' = _result
             /\ _indentation_level' = _indentation_level

AllStrings(tuple) == \A k \in DOMAIN tuple : tuple[k].type = "str"

OptionsImmutable ==
    [][/\ options' = options
       /\ SetOptionsField => raised' = "FrozenInstanceError"]_vars

\* An assignment to a field of the options has been rejected.
FieldWriteRejected == pc = "done" /\ raised = "FrozenInstanceError"

\* The XML declaration of a document: its version or 1.0, its encoding or
\* UTF-8, and standalone as yes or no when the document has one.
DeclarationOf(dom) ==
    "<?xml version=\"" \o (IF dom.version = None THEN "1.0" ELSE dom.version)
        \o "\" encoding=\"" \o (IF dom.encoding = None THEN "UTF-8" ELSE dom.encoding)
        \o "\""
        \o (IF dom.standalone = None THEN ""
            ELSE IF dom.standalone = "True" THEN " standalone=\"yes\""
            ELSE " standalone=\"no\"")
        \o "?>"

\* The characters the markup of a child of the document begins with
Opener(node) ==
    CASE node.nodeType = "Comment" -> "<!--"
      [] node.nodeType = "ProcessingInstruction" -> "<?" \o node.nodeName
      [] node.nodeType = "DocumentType" -> "<!DOCTYPE"
      [] OTHER -> "<" \o node.nodeName

RECURSIVE OpenersFrom(_, _, _, _)
\* The markup of the children from the k-th on begins in the text at or
\* after the given index, one after the other.
OpenersFrom(text, children, k, start) ==
    IF k > Len(children) THEN TRUE
    ELSE LET at == find(text, Opener(children[k]), start)
         IN  /\ at # -1
             /\ OpenersFrom(text, children, k + 1, at + Len(Opener(children[k])))

\* The children of the document begin after the declaration, in the order
\* of the document.
ChildrenInOrder(text, dom) ==
    OpenersFrom(text, dom.childNodes, 1, Len(DeclarationOf(dom)))

Formatted == pc \in {"write", "writing", "done"} /\ raised = None

DefaultElementFormatted ==
    /\ Formatted
    /\ pc = "done"
    /\ input = "input.xml"
    /\ options = Options

\* C20: a container element with children ends with its end tag on a line of
\* its own, followed by a line break: <root>foo</root>, formatted with the
\* default options, gives the declaration, <root>, foo indented by four
\* spaces and </root>, each followed by a line break, as the result and as
\* the content of the output file.
ContainerEndsWithNewline ==
    /\ DefaultElementFormatted =>
           /\ get_result_as_string
                  = "<?xml version=\"1.0\" encoding=\"UTF-8\"?>\n<root>\n    foo\n</root>\n"
           /\ output # None => files[output] = get_result_as_string
    /\ (/\ Formatted
        /\ calls = 0
        /\ documentElement.childNodes # << >>
        /\ documentElement.nodeName
               \notin Names(options.inline_elements) \cup Names(options.semicontainer_elements))
           => LET end == "</" \o documentElement.nodeName \o ">\n"
                  text == get_result_as_string
              IN  Slice(text, Len(text) - Len(end), Len(text)) = end

RECURSIVE DeclarationEnd(_, _)
\* The index after the ">" that ends the markup declaration read from index
\* j on: a ">" in a quoted literal does not end it.
DeclarationEnd(s, j) ==
    IF j >= Len(s) THEN -1
    ELSE IF CharAt(s, j) \in {"\"", "'"}
    THEN (IF find(s, CharAt(s, j), j + 1) = -1 THEN -1
          ELSE DeclarationEnd(s, find(s, CharAt(s, j), j + 1) + 1))
    ELSE IF CharAt(s, j) = ">" THEN j + 1
    ELSE DeclarationEnd(s, j + 1)

\* The index after the part of an internal subset that starts at index i,
\* or -1 where none starts.
SubsetPartEnd(s, i) ==
    IF StartsWithAt(s, i, "<!--") THEN EndAfter(s, "-->", i + 4)
    ELSE IF StartsWithAt(s, i, "<?") THEN EndAfter(s, "?>", i + 2)
    ELSE IF StartsWithAt(s, i, "<!") THEN DeclarationEnd(s, i)
    ELSE IF CharAt(s, i) = "%" THEN EndAfter(s, ";", i)
    ELSE -1

RECURSIVE PartsOfSubset(_, _)
\* The markup declarations, comments, processing instructions and
\* parameter-entity references of an internal subset, in order.
PartsOfSubset(s, i) ==
    IF i >= Len(s) THEN << >>
    ELSE IF SubsetPartEnd(s, i) = -1 THEN PartsOfSubset(s, i + 1)
    ELSE << Slice(s, i, SubsetPartEnd(s, i)) >> \o PartsOfSubset(s, SubsetPartEnd(s, i))

\* The bracket clause of the fragment of a document type at a level: none
\* without a subset; the raw subset when the parts do not start new lines;
\* else " [", the parts of the subset on lines of their own, each indented
\* by one level more, and "]".
SubsetRendered(fragment, subset, level) ==
    IF subset = None \/ subset = "" THEN find(fragment, "[", 0) = -1
    ELSE IF ~options.doctype_subset_parts_start_new_lines
    THEN find(fragment, " [" \o subset \o "]>", 0) # -1
    ELSE find(fragment,
              " [\n" \o JoinLines([k \in DOMAIN PartsOfSubset(subset, 0) |->
                                      Indentation(level + 1) \o PartsOfSubset(subset, 0)[k]])
                     \o "\n]>", 0) # -1

DoctypeRendered ==
    ProcessDocumentTypeNode =>
        SubsetRendered(_result'[Len(_result')], Child(Head(agenda).path).internalSubset,
                       _indentation_level)

\* C21: the fragment of a document type holds no bracket clause without an
\* internal subset, the raw subset in brackets when
\* doctype_subset_parts_start_new_lines is false, and otherwise every part
\* of the subset, complete and in order, on lines of their own indented by
\* one level, between " [" and "]".
SubsetPartsComplete == [][DoctypeRendered]_vars

\* A processing instruction as the claim renders it: the target and, after
\* one space, the data with its white space collapsed and stripped, if any.
RenderedInstruction(pi) ==
    "<?" \o pi.nodeName
        \o (IF strip(reduce_redundant_whitespace(pi.data)) = "" THEN ""
            ELSE " " \o strip(reduce_redundant_whitespace(pi.data)))
        \o "?>"

InstructionRendered ==
    ProcessProcessingInstructionNode =>
        LET newline == IF options.processing_instructions_start_new_lines THEN "\n" ELSE ""
        IN  _result'[Len(_result')]
                = newline \o Indentation(_indentation_level)
                      \o RenderedInstruction(Child(Head(agenda).path)) \o newline

\* C22: the fragment of a processing instruction is <?target data?>, data
\* with its white space collapsed and stripped and after exactly one space,
\* or <?target?> without data, between line breaks iff
\* processing_instructions_start_new_lines is true.
InstructionWithOptionalData == [][InstructionRendered]_vars

\* The orders a sequence of attributes can be put in
Orders(attributes) ==
    { [k \in DOMAIN attributes |-> attributes[p[k]]] :
        p \in { f \in [DOMAIN attributes -> DOMAIN attributes] :
                    \A j, k \in DOMAIN attributes : f[j] = f[k] => j = k } }

\* The attributes in ascending order of their names
Ascending(attributes) ==
    CHOOSE order \in Orders(attributes) :
        \A k \in 1 .. (Len(order) - 1) : StringLess(order[k].name, order[k + 1].name)

\* The fragments of the attributes of an element as the claim orders them
ExpectedAttributes(element) ==
    LET order == IF options.sorted_attributes THEN Ascending(element.attributes)
                 ELSE element.attributes
    IN  [k \in DOMAIN order |->
            " " \o order[k].name \o "=\"" \o escape_xml_entities(order[k].value) \o "\""]

\* Among the fragments of a start tag the attributes follow the tag name in
\* the expected order, the end of the tag follows them, and no other
\* fragment is an attribute.
AttributesInTag(fragments, element) ==
    \E t \in DOMAIN fragments :
        /\ fragments[t] = "<" \o element.nodeName
        /\ t + Len(element.attributes) + 1 <= Len(fragments)
        /\ SubSeq(fragments, t + 1, t + Len(element.attributes))
               = ExpectedAttributes(element)
        /\ fragments[t + Len(element.attributes) + 1]
               = (IF element.childNodes = << >> THEN "/>" ELSE ">")
        /\ \A k \in DOMAIN fragments :
               find(fragments[k], "=", 0) # -1
                   => k \in (t + 1) .. (t + Len(element.attributes))

AttributesEmitted ==
    ProcessElementNode =>
        AttributesInTag(SubSeq(_result', Len(_result) + 1, Len(_result')),
                        Child(Head(agenda).path))

\* C23: the attributes of an element are emitted once each as name="value"
\* after a space, between the tag name and the end of the start tag, in
\* ascending order of their names when sorted_attributes is true and in
\* source order when it is false, whatever the category of the element and
\* whether it has child nodes or not.
AttributesOrdered == [][AttributesEmitted]_vars

\* The start tag of a semicontainer element with child nodes and with the
\* attributes b and a, in this order in the source, has been emitted sorted.
SortedAttributesEmitted ==
    /\ pc = "emit"
    /\ options.sorted_attributes
    /\ "r" \in Names(options.semicontainer_elements)
    /\ input = "<r b=\"2\" a=\"1\">foo</r>"
    /\ Len(_result) >= 4
    /\ SubSeq(_result, Len(_result) - 3, Len(_result))
           = << "<r", " a=\"1\"", " b=\"2\"", ">" >>

\* The result the constructed formatter holds before any call is made on it.
RunCompleted == pc = "done" /\ calls = 0

InlineEndWritten ==
    /\ ProcessElementEnd
    /\ ElementGroup(Child(Head(agenda).path)) # "container"
    /\ raised' = None

\* The fragments an end tag is expected to add to the buffer: the
\* indentation when the text of the buffer ends with a line break, and the
\* end tag.
ExpectedEnd(fragments, element, level) ==
    (IF EndsWith(join(fragments), "\n") THEN << Indentation(level) >> ELSE << >>)
        \o << _process_element_end_tag(element) >>

EndTagIndented ==
    InlineEndWritten =>
        /\ _result' = _result \o ExpectedEnd(_result, Child(Head(agenda).path),
                                             _indentation_level)
        /\ _indentation_level' = _indentation_level - 1
        /\ ~Contains(_result'[Len(_result')], "\n")

CommentText(comment) ==
    (IF options.comments_have_trailing_spaces THEN "<!-- " ELSE "<!--")
        \o strip(reduce_redundant_whitespace(comment.data))
        \o (IF options.comments_have_trailing_spaces THEN " -->" ELSE "-->")

\* The last comment of the text: where it starts, what stands before it on
\* its line, and its text up to the end of the text or of its line.
LastComment(text) ==
    LET start == rfind(text, "<!--", 0, Len(text))
        eol == rfind(text, "\n", 0, start)
    IN  [before |-> Slice(text, eol + 1, start),
         text |-> rstrip(Slice(text, start, Len(text)))]

CommentWritten ==
    ProcessCommentNode =>
        LET written == LastComment(join(_result'))
        IN  /\ written.text = CommentText(Child(Head(agenda).path))
            /\ strip(written.before) = "" =>
                   Len(written.before) = _indentation_level * options.indentation

\* C26: a comment that begins a line at indentation level L has exactly
\* L x indentation spaces before it, whether or not comments start new lines,
\* and is written as <!-- data --> or <!--data--> with its data collapsed and
\* stripped.
CommentIndentedByLevel == [][CommentWritten]_vars
\* A line of the result in normal form: not blank, no white space before its
\* line break, and one line break, at its end, unless it is the last line.
NormalLine(l, last) ==
    /\ strip(l) # ""
    /\ find(l, "\n", 0) = (IF last THEN -1 ELSE Len(l) - 1)
    /\ rstrip(l) = (IF last THEN l ELSE Slice(l, 0, Len(l) - 1))

\* C27: the final result is in normal form: no empty or blank line, no white
\* space before a line break, no leading or trailing white space of the whole
\* text, and every line but the last ends with exactly one line break, the
\* lines made by re-splitting included.
ResultInNormalForm ==
    RunCompleted =>
        /\ \A k \in DOMAIN _result : NormalLine(_result[k], k = Len(_result))
        /\ strip(get_result_as_string) = get_result_as_string
\* The number of non-empty elements whose child nodes are being emitted,
\* read from the place of the traversal in the tree: the elements above the
\* node in hand, and the element itself when its end is in hand.
OpenElements ==
    IF agenda = << >> THEN 0
    ELSE IF Head(agenda).op = "end" THEN Len(Head(agenda).path)
    ELSE Len(Head(agenda).path) - 1

\* C28: during the traversal the indentation level is the number of
\* non-empty elements whose children are being emitted; it is 0 when the
\* emission has finished, and no run of the constructor fails with the
\* error of a decrease below zero.
LevelCountsOpenElements ==
    /\ pc = "emit" => _indentation_level = OpenElements
    /\ (pc \in {"for", "while", "write", "writing"} \/ RunCompleted) =>
           _indentation_level = 0
    /\ (pc = "failed" /\ raised = "ValueError") => _dom = NoDocument

\* The end of an element inside another non-empty element is in hand.
NestedElementOpen ==
    /\ pc = "emit"
    /\ agenda # << >>
    /\ Head(agenda).op = "end"
    /\ _indentation_level = 2
\* What a fragment is of the markup: a tag fragment stands for itself, a
\* comment, a processing instruction or the declaration, a CDATA section and
\* a document type for their opening characters; text, attributes,
\* indentation and line breaks for nothing.
MarkupOf(fragment) ==
    LET f == lstrip(fragment)
    IN  IF fragment \in {">", "/>"} THEN << fragment >>
        ELSE IF StartsWithAt(f, 0, "<!--") THEN << "<!--" >>
        ELSE IF StartsWithAt(f, 0, "<![CDATA[") THEN << "<![CDATA[" >>
        ELSE IF StartsWithAt(f, 0, "<!DOCTYPE") THEN << "<!DOCTYPE" >>
        ELSE IF StartsWithAt(f, 0, "<?") THEN << "<?" >>
        ELSE IF StartsWithAt(fragment, 0, "<") THEN << fragment >>
        ELSE << >>

RECURSIVE MarkupIn(_, _, _)
\* The markup of the fragments lo .. hi
MarkupIn(fragments, lo, hi) ==
    IF lo > hi THEN << >>
    ELSE IF lo = hi THEN MarkupOf(fragments[lo])
    ELSE LET mid == (lo + hi) \div 2
         IN  MarkupIn(fragments, lo, mid) \o MarkupIn(fragments, mid + 1, hi)

RECURSIVE MarkupOfTree(_)
RECURSIVE MarkupOfNodes(_)
\* The markup the child nodes call for, in document order
MarkupOfNodes(nodes) ==
    IF nodes = << >> THEN << >>
    ELSE MarkupOfTree(Head(nodes)) \o MarkupOfNodes(Tail(nodes))

\* The markup a node calls for: a non-empty element its start tag, the
\* markup of its child nodes and its end tag, an empty element one
\* self-closing tag.
MarkupOfTree(node) ==
    CASE node.nodeType = "Element" ->
             IF node.childNodes = << >>
             THEN << "<" \o node.nodeName, "/>" >>
             ELSE << "<" \o node.nodeName, ">" >> \o MarkupOfNodes(node.childNodes)
                      \o << "</" \o node.nodeName \o ">" >>
      [] node.nodeType = "Document" -> << "<?" >> \o MarkupOfNodes(node.childNodes)
      [] node.nodeType = "Comment" -> << "<!--" >>
      [] node.nodeType = "CDATASection" -> << "<![CDATA[" >>
      [] node.nodeType = "DocumentType" -> << "<!DOCTYPE" >>
      [] node.nodeType = "ProcessingInstruction" -> << "<?" >>
      [] OTHER -> << >>

\* a is the beginning of b
IsPrefix(a, b) == Len(a) <= Len(b) /\ SubSeq(b, 1, Len(a)) = a

\* C29: the fragments are well nested: the markup written so far is the
\* beginning of the markup of the tree in document order, and all of it when
\* the traversal has ended, so that every non-empty element has one start tag
\* and one end tag of its name around the fragments of its descendants and
\* every empty element one self-closing tag.
FragmentsWellNested ==
    pc = "emit" =>
        LET written == MarkupIn(_result, 1, Len(_result))
            called == MarkupOfTree(_dom)
        IN  /\ IsPrefix(written, called)
            /\ agenda = << >> => written = called

\* The traversal has ended on a tree with an empty element and with a
\* non-empty element inside another.
NestedTreeEmitted ==
    /\ pc = "emit"
    /\ agenda = << >>
    /\ \E k \in DOMAIN _result : _result[k] = "/>"
    /\ \E k \in DOMAIN _result : _result[k] = "</b>"
    /\ _result[Len(_result)] = "</r>"
RECURSIVE WithoutWhitespace(_, _, _)
\* The characters of s[lo:hi] that are not white space, in their order
WithoutWhitespace(s, lo, hi) ==
    IF lo >= hi THEN ""
    ELSE IF hi - lo = 1
    THEN (IF CharAt(s, lo) \in Whitespace THEN "" ELSE CharAt(s, lo))
    ELSE LET mid == (lo + hi) \div 2
         IN  WithoutWhitespace(s, lo, mid) \o WithoutWhitespace(s, mid, hi)

\* The text of the loops of _split_too_long_lines: the lines written, the
\* line in hand and the lines to come.
Reflowed ==
    join(result) \o (IF pc = "while" THEN line ELSE "") \o join(lines)

ReflowKeepsText ==
    (pc \in {"for", "while"} /\ ReflowNext) =>
        WithoutWhitespace(Reflowed', 0, Len(Reflowed'))
            = WithoutWhitespace(Reflowed, 0, Len(Reflowed))

\* C30: re-splitting drops, doubles and reorders no character that is not
\* white space: every step of the loops leaves the text of the lines written,
\* in hand and to come the same up to white space, also the step at which
\* the no-progress guard ends the loop.
SplitKeepsCharacters == [][ReflowKeepsText]_vars

\* The no-progress guard has ended the loop on a line that was split before.
GuardEndedAfterSplit ==
    /\ pc = "for"
    /\ Len(result) >= 2
    /\ EndsWith(result[Len(result) - 1], "\n")
    /\ result[Len(result)] = line
    /\ Len(line) > options.max_line_length
    /\ _find_split_position(line) # NoSplit
    /\ lines = << >>
    /\ Len(result) > 2 \/ ~EndsWith(result[1], "a\n")
====
